---- MODULE Spec2Model ----
(***************************************************************************)
(* A model of the memory-palace core: the memory store and its graph of    *)
(* typed edges (memory_palace/services/memory_service.py), the edge-type   *)
(* classifier (memory_palace/llm.py), the schema constraints               *)
(* (memory_palace/models_v2.py) and the auto-link configuration            *)
(* (memory_palace/config_v2.py).                                           *)
(*                                                                         *)
(* Text is modelled as a sequence of one-character strings, so that the    *)
(* string operations of the code (strip, lower, rstrip, split, startswith) *)
(* are computed and not assumed.  Similarities are hundredths (0.75 = 75). *)
(***************************************************************************)
EXTENDS Integers, Sequences, FiniteSets, TLC

VARIABLES
    memories,   \* the memories table: a sequence of rows, row i has id i
    edges,      \* the memory_edges table: a set of rows
    config,     \* the auto-link configuration dictionary remember() reads
    result,     \* the last operation, its arguments and what it returned
    cls,        \* the last classifier call: the server's reply and the answer
    readers,    \* concurrent read operations in flight, per process
    handoff_messages,  \* the handoff_messages table: row i has id i
    instances,  \* the configured instance ids (config key "instances")
    now,        \* the clock datetime.utcnow() reads, in ticks
    synthesis_enabled,  \* the config key synthesis.enabled
    remembering,  \* the remember call between its two commits, if any
    embedding_call,  \* the get_embedding call under way: its loop and requests
    model_cache,  \* the detected model name cached for each role
    probes,     \* the list-models requests made so far
    model_call  \* the last model detection or cache clearing, and its answer

\* the state of the handoff bus, which the memory operations leave alone
handoff_vars == <<handoff_messages, instances, now>>

\* the rest of the server process, which the operations on the two tables
\* leave alone
process_vars == <<synthesis_enabled, remembering, embedding_call, model_cache, probes, model_call>>

vars == <<memories, edges, config, result, cls, readers, handoff_messages, instances, now, synthesis_enabled, remembering, embedding_call, model_cache, probes, model_call>>

----------------------------------------------------------------------------
(* Python string operations, on sequences of characters *)

WS == {" ", "\n", "\t"}

RECURSIVE lstrip(_, _)
lstrip(s, cs) ==
    IF s # <<>> /\ Head(s) \in cs THEN lstrip(Tail(s), cs) ELSE s

RECURSIVE rstrip(_, _)
rstrip(s, cs) ==
    IF s # <<>> /\ s[Len(s)] \in cs
    THEN rstrip(SubSeq(s, 1, Len(s) - 1), cs)
    ELSE s

strip(s) == rstrip(lstrip(s, WS), WS)

strip_chars(s, cs) == rstrip(lstrip(s, cs), cs)

LowerChar(c) ==
    CASE c = "S" -> "s" [] c = "U" -> "u" [] c = "C" -> "c" [] c = "R" -> "r"
      [] c = "E" -> "e" [] c = "D" -> "d" [] OTHER -> c

lower(s) == [i \in 1..Len(s) |-> LowerChar(s[i])]

startswith(s, prefix) ==
    Len(prefix) <= Len(s) /\ SubSeq(s, 1, Len(prefix)) = prefix

RECURSIVE take_word(_)
take_word(s) ==
    IF s = <<>> \/ Head(s) \in WS THEN <<>> ELSE <<Head(s)>> \o take_word(Tail(s))

\* s.split()[0] if s.split() else ""
first_of_split(s) == take_word(lstrip(s, WS))

\* the position of the first occurrence of c in s, 0 when there is none
RECURSIVE find_char(_, _, _)
find_char(s, c, i) ==
    IF i > Len(s) THEN 0 ELSE IF s[i] = c THEN i ELSE find_char(s, c, i + 1)

\* s.splitlines()
RECURSIVE splitlines(_)
splitlines(s) ==
    IF s = <<>> THEN <<>>
    ELSE LET k == find_char(s, "\n", 1) IN
         IF k = 0 THEN <<s>>
         ELSE <<SubSeq(s, 1, k - 1)>> \o splitlines(SubSeq(s, k + 1, Len(s)))

DigitValue(c) ==
    CASE c = "0" -> 0 [] c = "1" -> 1 [] c = "2" -> 2 [] c = "3" -> 3
      [] c = "4" -> 4 [] c = "5" -> 5 [] c = "6" -> 6 [] c = "7" -> 7
      [] c = "8" -> 8 [] c = "9" -> 9 [] OTHER -> -1

RECURSIVE digits_value(_, _)
digits_value(s, acc) ==
    IF s = <<>> THEN acc ELSE digits_value(Tail(s), acc * 10 + DigitValue(Head(s)))

\* int(s): the value, or ValueError where Python raises it (ids are written
\* without sign, so a negative number stands for no id)
ValueError == -1

parse_int(s) ==
    LET t == strip(s) IN
    IF t # <<>> /\ \A i \in 1..Len(t) : DigitValue(t[i]) >= 0
    THEN digits_value(t, 0)
    ELSE ValueError

----------------------------------------------------------------------------
(* Edge types (llm.py) *)

W_relates_to   == <<"r","e","l","a","t","e","s","_","t","o">>
W_supersedes   == <<"s","u","p","e","r","s","e","d","e","s">>
W_derived_from == <<"d","e","r","i","v","e","d","_","f","r","o","m">>
W_contradicts  == <<"c","o","n","t","r","a","d","i","c","t","s">>
W_exemplifies  == <<"e","x","e","m","p","l","i","f","i","e","s">>
W_refines      == <<"r","e","f","i","n","e","s">>

VALID_EDGE_TYPES ==
    {W_relates_to, W_supersedes, W_derived_from,
     W_contradicts, W_exemplifies, W_refines}

EDGE_TYPE_ALIASES ==
    [w \in { <<"r","e","l","a","t","e","s">>, W_relates_to,
             W_supersedes, <<"s","u","p","e","r","s","e","d","e">>,
             W_derived_from,
             <<"d","e","r","i","v","e","s","_","f","r","o","m">>,
             <<"d","e","r","i","v","e","s">>, <<"d","e","r","i","v","e","d">>,
             W_contradicts, <<"c","o","n","t","r","a","d","i","c","t">>,
             <<"c","o","n","t","r","a","d","i","c","t","i","o","n">>,
             W_exemplifies, <<"e","x","e","m","p","l","i","f","y">>,
             <<"e","x","a","m","p","l","e">>,
             W_refines, <<"r","e","f","i","n","e">>,
             <<"r","e","f","i","n","e","d">> } |->
        CASE w \in { <<"r","e","l","a","t","e","s">>, W_relates_to } -> W_relates_to
          [] w \in { W_supersedes, <<"s","u","p","e","r","s","e","d","e">> } -> W_supersedes
          [] w \in { W_derived_from,
                     <<"d","e","r","i","v","e","s","_","f","r","o","m">>,
                     <<"d","e","r","i","v","e","s">>,
                     <<"d","e","r","i","v","e","d">> } -> W_derived_from
          [] w \in { W_contradicts, <<"c","o","n","t","r","a","d","i","c","t">>,
                     <<"c","o","n","t","r","a","d","i","c","t","i","o","n">> } -> W_contradicts
          [] w \in { W_exemplifies, <<"e","x","e","m","p","l","i","f","y">>,
                     <<"e","x","a","m","p","l","e">> } -> W_exemplifies
          [] OTHER -> W_refines]

\* the name of a canonical edge type, as stored in relation_type
TypeName(w) ==
    CASE w = W_relates_to -> "relates_to"
      [] w = W_supersedes -> "supersedes"
      [] w = W_derived_from -> "derived_from"
      [] w = W_contradicts -> "contradicts"
      [] w = W_exemplifies -> "exemplifies"
      [] w = W_refines -> "refines"
      [] OTHER -> "?"

PUNCT == {".", ",", ";", ":", "!", "?"}

\* lines 309-324 of _normalize_edge_type: the type the output resolves to,
\* before the guard.  The loop over VALID_EDGE_TYPES stops at the first type
\* that starts with the word; the word has at least 4 characters and no two
\* types share their first 4, so at most one type matches.
resolve_edge_type(raw) ==
    LET cleaned == rstrip(lower(strip(raw)), PUNCT)
        first_word == first_of_split(cleaned)
        fuzzy == {v \in VALID_EDGE_TYPES :
                     startswith(v, first_word) /\ Len(first_word) >= 4}
    IN  IF first_word \in DOMAIN EDGE_TYPE_ALIASES
        THEN EDGE_TYPE_ALIASES[first_word]
        ELSE IF first_word \in VALID_EDGE_TYPES
        THEN first_word
        ELSE IF fuzzy = {} THEN W_relates_to
        ELSE CHOOSE v \in fuzzy : TRUE

normalize_edge_type_unguarded(raw) == TypeName(resolve_edge_type(raw))

normalize_edge_type(raw) ==
    LET resolved == resolve_edge_type(raw) IN
    IF resolved = W_supersedes THEN "contradicts" ELSE TypeName(resolved)

\* What the model server does with a generation request: no classification
\* model is detected (NO_MODEL), the request raises (FAILED), or it answers
\* with a text (Reply(text)).
NO_MODEL == [kind |-> "no_model", text |-> <<>>]
FAILED == [kind |-> "failed", text |-> <<>>]
Reply(text) == [kind |-> "reply", text |-> text]

classify_edge_type(reply) ==
    IF reply = NO_MODEL THEN "relates_to"
    ELSE IF reply = FAILED THEN "relates_to"
    ELSE normalize_edge_type(reply.text)

\* targets: a sequence of memory ids (the subjects do not decide the result)
RECURSIVE parse_lines(_, _, _)
parse_lines(lines, valid_ids, results) ==
    IF lines = <<>> THEN results
    ELSE
      LET line == strip(Head(lines))
          k == find_char(line, "|", 1)
          id_str == strip_chars(strip(SubSeq(line, 1, k - 1)), {"[", "]", "#"})
          type_str == strip(SubSeq(line, k + 1, Len(line)))
          tid == parse_int(id_str)
      IN  IF line = <<>> \/ k = 0 THEN parse_lines(Tail(lines), valid_ids, results)
          ELSE IF tid = ValueError THEN parse_lines(Tail(lines), valid_ids, results)
          ELSE IF tid \notin valid_ids THEN parse_lines(Tail(lines), valid_ids, results)
          ELSE parse_lines(Tail(lines), valid_ids,
                 [t \in DOMAIN results \cup {tid} |->
                    IF t = tid THEN normalize_edge_type(type_str) ELSE results[t]])

EmptyMap == [t \in {} |-> "relates_to"]

parse_batch_classifications(raw, targets) ==
    parse_lines(splitlines(strip(raw)),
                {targets[i] : i \in 1..Len(targets)}, EmptyMap)

classify_batch_chunk(reply, targets) ==
    IF reply = FAILED THEN EmptyMap
    ELSE parse_batch_classifications(reply.text, targets)

Min(a, b) == IF a <= b THEN a ELSE b
Max(a, b) == IF a >= b THEN a ELSE b

\* results.update(chunk_results) over the chunks, in order
RECURSIVE classify_chunks(_, _, _, _)
classify_chunks(replies, targets, batch_size, results) ==
    IF targets = <<>> THEN results
    ELSE
      LET n == Min(batch_size, Len(targets))
          got == classify_batch_chunk(Head(replies), SubSeq(targets, 1, n))
      IN  classify_chunks(Tail(replies), SubSeq(targets, n + 1, Len(targets)),
             batch_size,
             [t \in DOMAIN results \cup DOMAIN got |->
                IF t \in DOMAIN got THEN got[t] ELSE results[t]])

\* replies: one per chunk; <<NO_MODEL>> when no model is detected
classify_edge_types_batch(replies, targets, batch_size) ==
    IF targets = <<>> THEN EmptyMap
    ELSE IF Head(replies) = NO_MODEL
    THEN [t \in {targets[i] : i \in 1..Len(targets)} |-> "relates_to"]
    ELSE LET results == classify_chunks(replies, targets, batch_size, EmptyMap) IN
         [t \in DOMAIN results \cup {targets[i] : i \in 1..Len(targets)} |->
            IF t \in DOMAIN results THEN results[t] ELSE "relates_to"]

----------------------------------------------------------------------------
(* The classifier on its own: the replies the model server may give *)

BATCH_SIZE == 40

ReplyWords ==
    { W_relates_to, W_supersedes, W_derived_from, W_contradicts,
      W_exemplifies, W_refines,
      <<"s","u","p","e","r","s","e","d","e">>,
      <<"d","e","r","i","v","e","s">>,
      <<"c","o","n","t","r","a","d","i","c","t","i","o","n">>,
      <<"e","x","a","m","p","l","e">>,
      <<"s","u","p">>, <<"s","u","p","e">>, <<"s","u","p","e","r">>,
      <<"s","u","p","e","r","s","e","d">>,
      <<"s","u","p","e","r","s","e","d","e","d">>,
      <<"c","o","n","t">>, <<"r","e","f","i">>, <<"r","e">>,
      <<"r","e","l","a">>, <<"d","e","r","i">>, <<"e","x","e","m">>,
      <<"S","U","P","E","R","S","E","D","E","S">>,
      <<"S","u","p","e","r","s","e","d","e","s">>,
      <<"S","u","p","e">>, <<"R","e","f","i","n","e","s">>,
      <<"x">>, <<>>, <<"t","h","e">> }

ReplyPrefixes == { <<>>, <<" ">>, <<"\n">> }

ReplySuffixes ==
    { <<>>, <<".">>, <<"!","?">>, <<" ">>, <<" ","x">>, <<"."," ","x">>,
      <<"\n","s","u","p","e","r","s","e","d","e","s">> }

RawOutputs ==
    { pre \o w \o post : pre \in ReplyPrefixes, w \in ReplyWords,
                         post \in ReplySuffixes }

SingleReplies == {NO_MODEL, FAILED} \cup {Reply(t) : t \in RawOutputs}

IdTexts ==
    { <<"1">>, <<"[","2","]">>, <<"#","1">>, <<" ","2"," ">>, <<"9">>,
      <<"x">>, <<"[","1","]"," ">>, <<"1","2">> }

BatchTypeTexts ==
    { W_supersedes, W_refines, <<" ","s","u","p","e",".">>, <<"x">>, <<>> }

BatchLines ==
    { i \o <<"|">> \o t : i \in IdTexts, t \in BatchTypeTexts }
      \cup { <<>>, <<"1"," ">> \o W_supersedes, <<"1","|","2","|">> \o W_refines }

TwoLineParts ==
    { <<"1","|">> \o W_supersedes, <<"2","|">> \o W_refines,
      <<"1","|">> \o W_exemplifies, <<"o","k">> }

BatchTexts ==
    BatchLines \cup { a \o <<"\n">> \o b : a \in TwoLineParts, b \in TwoLineParts }

BatchReplies == {FAILED} \cup {Reply(t) : t \in BatchTexts}

BatchTargets == { <<>>, <<1>>, <<2, 1>> }

ChunkReplies ==
    { FAILED, Reply(<<"1","|">> \o W_supersedes),
      Reply(<<"[","2","]","|"," ","s","u","p","e",".">>),
      Reply(<<"2","|">> \o W_refines \o <<"\n","1","|">> \o W_exemplifies),
      Reply(<<"1","|","x">>) }

NoCall ==
    [fn |-> "none", replies |-> <<>>, targets |-> <<>>, batch_size |-> 0,
     out |-> EmptyMap, done |-> FALSE]

Call(fn, replies, targets, batch_size) ==
    [fn |-> fn, replies |-> replies, targets |-> targets,
     batch_size |-> batch_size, out |-> EmptyMap, done |-> FALSE]

\* the calls made: the arguments, and the reply to each generation request
\* (one request for the single form, one per chunk for the batched form)
ClassifierCalls ==
    { Call("classify_edge_type", <<r>>, <<0>>, 0) : r \in SingleReplies }
    \cup { Call("classify_edge_types_batch", <<>>, <<>>, BATCH_SIZE) }
    \cup { Call("classify_edge_types_batch", <<r>>, t, BATCH_SIZE) :
             r \in BatchReplies \cup {NO_MODEL}, t \in BatchTargets \ {<<>>} }
    \cup { Call("classify_edge_types_batch", <<r1, r2>>, <<2, 1>>, 1) :
             r1 \in ChunkReplies, r2 \in ChunkReplies }

\* classify_edge_type(subject_a, subject_b): one generation request
ClassifyEdgeType ==
    /\ cls.fn = "classify_edge_type" /\ ~cls.done
    /\ cls' = [cls EXCEPT !.done = TRUE,
                          !.out = [t \in {0} |-> classify_edge_type(cls.replies[1])]]
    /\ UNCHANGED <<memories, edges, config, result, readers, handoff_vars, process_vars>>

\* classify_edge_types_batch(new_subject, targets, batch_size): one
\* generation request per chunk of batch_size targets
ClassifyEdgeTypesBatch ==
    /\ cls.fn = "classify_edge_types_batch" /\ ~cls.done
    /\ cls' = [cls EXCEPT !.done = TRUE,
                          !.out = classify_edge_types_batch(cls.replies, cls.targets,
                                                            cls.batch_size)]
    /\ UNCHANGED <<memories, edges, config, result, readers, handoff_vars, process_vars>>

----------------------------------------------------------------------------
(* The store: rows, schema constraints, configuration *)

\* A missing value: None for a text or a vector is the empty sequence (the
\* code tests both with "if x:"), None for an id is 0 (ids start at 1).
None == <<>>
NoId == 0

VALID_SOURCE_TYPES == {"conversation", "explicit", "inferred", "observation"}

\* the clamp with its lower bound forgotten
clamp_importance_upper_only(importance) == Min(10, importance)

\* importance = max(1, min(10, importance))
clamp_importance(importance) == Max(1, Min(10, importance))

\* CheckConstraint("importance >= 1 AND importance <= 10")
check_importance_range(row) == row.importance >= 1 /\ row.importance <= 10

\* MemoryEdge.__table_args__ on the table with the staged rows added, in order:
\* uq_edge_triple, check_no_self_loops, check_strength_range
EdgeTriple(e) == <<e.source_id, e.target_id, e.relation_type>>

\* the table without uq_edge_triple
edge_constraints_no_unique(table, staged) ==
    \A i \in 1..Len(staged) :
        /\ staged[i].source_id # staged[i].target_id
        /\ staged[i].strength >= 0 /\ staged[i].strength <= 100

\* the table without check_no_self_loops
edge_constraints_no_self_loops(table, staged) ==
    /\ \A i \in 1..Len(staged) :
         /\ staged[i].strength >= 0 /\ staged[i].strength <= 100
         /\ \A e \in table : EdgeTriple(e) # EdgeTriple(staged[i])
    /\ \A i, j \in 1..Len(staged) :
         i # j => EdgeTriple(staged[i]) # EdgeTriple(staged[j])

edge_constraints_ok(table, staged) ==
    /\ \A i \in 1..Len(staged) :
         /\ staged[i].source_id # staged[i].target_id
         /\ staged[i].strength >= 0 /\ staged[i].strength <= 100
         /\ \A e \in table : EdgeTriple(e) # EdgeTriple(staged[i])
    /\ \A i, j \in 1..Len(staged) :
         i # j => EdgeTriple(staged[i]) # EdgeTriple(staged[j])

SeqToSet(q) == {q[i] : i \in 1..Len(q)}

\* cosine_similarity(a, b), in hundredths.  math.sqrt returns the root
\* rounded to the precision of a float; the model keeps the magnitudes in
\* tenths, rounded to the nearest, so that the root of a perfect square is
\* exact and any other root is a rounded one.
Isqrt(n) == CHOOSE r \in 0..n : r * r <= n /\ (r + 1) * (r + 1) > n

\* math.sqrt(n), in tenths
sqrt_tenths(n) ==
    LET r == Isqrt(n) IN
    CHOOSE m \in (10 * r)..(10 * r + 10) :
        (2 * m - 1) * (2 * m - 1) <= 400 * n /\ 400 * n < (2 * m + 1) * (2 * m + 1)

RECURSIVE dot(_, _)
dot(a, b) == IF a = <<>> THEN 0 ELSE Head(a) * Head(b) + dot(Tail(a), Tail(b))

cosine_similarity(a, b) ==
    IF a = None \/ b = None THEN 0
    ELSE IF Len(a) # Len(b) THEN 0
    ELSE LET magnitude_a == sqrt_tenths(dot(a, a))
             magnitude_b == sqrt_tenths(dot(b, b))
         IN  IF magnitude_a = 0 \/ magnitude_b = 0 THEN 0
             ELSE (dot(a, b) * 100 * 100) \div (magnitude_a * magnitude_b)

\* get_auto_link_config() for the auto_link section `section` of the
\* configuration file (a dictionary that holds any subset of the keys)
Get(d, key, default) == IF key \in DOMAIN d THEN d[key] ELSE default

get_auto_link_config(section) ==
    [enabled |-> Get(section, "enabled", TRUE),
     similarity_threshold |-> Get(section, "similarity_threshold", 75),
     max_links |-> Get(section, "max_links", 5),
     same_project_only |-> Get(section, "same_project_only", TRUE),
     classify_edges |-> Get(section, "classify_edges", TRUE),
     classification_model |-> Get(section, "classification_model", "None")]

\* The dictionary remember() expects: the keys above and the three it reads
\* by subscript, link_threshold, suggest_threshold and max_suggestions.
tiered_auto_link_config(section) ==
    [enabled |-> Get(section, "enabled", TRUE),
     similarity_threshold |-> Get(section, "similarity_threshold", 75),
     link_threshold |-> Get(section, "similarity_threshold", 75),
     suggest_threshold |-> Get(section, "suggest_threshold", 50),
     max_links |-> Get(section, "max_links", 5),
     max_suggestions |-> Get(section, "max_suggestions", 5),
     same_project_only |-> Get(section, "same_project_only", TRUE),
     classify_edges |-> Get(section, "classify_edges", TRUE),
     classification_model |-> Get(section, "classification_model", "None")]

\* stable sort of (id, similarity) pairs, highest similarity first
RECURSIVE insert_desc(_, _)
insert_desc(sorted, x) ==
    IF sorted = <<>> THEN <<x>>
    ELSE IF Head(sorted)[2] >= x[2]
    THEN <<Head(sorted)>> \o insert_desc(Tail(sorted), x)
    ELSE <<x>> \o sorted

RECURSIVE sort_desc(_)
sort_desc(q) ==
    IF q = <<>> THEN <<>>
    ELSE insert_desc(sort_desc(SubSeq(q, 1, Len(q) - 1)), q[Len(q)])

Prefix(q, n) == SubSeq(q, 1, Min(n, Len(q)))

\* _find_similar_memories(db, embedding, exclude_id, project, threshold);
\* project = "" stands for None.  Rows are scanned in id order.
find_similar_memories(rows, embedding, exclude_id, project, threshold) ==
    LET candidate(i) ==
            /\ i # exclude_id
            /\ rows[i].is_archived = FALSE
            /\ rows[i].embedding # None
            /\ (project # "" => rows[i].project = project)
        RECURSIVE scan(_)
        scan(i) ==
            IF i > Len(rows) THEN <<>>
            ELSE (IF candidate(i)
                     /\ cosine_similarity(embedding, rows[i].embedding) >= threshold
                  THEN << <<i, cosine_similarity(embedding, rows[i].embedding)>> >>
                  ELSE <<>>) \o scan(i + 1)
    IN  sort_desc(scan(1))

----------------------------------------------------------------------------
(* remember *)

Memory(instance_id, project, memory_type, content, subject, keywords, tags, importance, source_type, source_context, source_session_id) ==
    [instance_id |-> instance_id, project |-> project,
     memory_type |-> memory_type, content |-> content, subject |-> subject,
     keywords |-> keywords, tags |-> tags, importance |-> importance,
     source_type |-> source_type, source_context |-> source_context,
     source_session_id |-> source_session_id,
     embedding |-> None, access_count |-> 0, is_archived |-> FALSE]

MemoryEdge(source_id, target_id, relation_type, strength, bidirectional, edge_metadata, created_by) ==
    [source_id |-> source_id, target_id |-> target_id,
     relation_type |-> relation_type, strength |-> strength,
     bidirectional |-> bidirectional, metadata |-> edge_metadata,
     created_by |-> created_by]

\* source_context is a sequence of lines; a marker is appended as a new line
TextLine(text) == [line |-> "text", id |-> NoId, text |-> text]
SupersededMarker(new_id) == [line |-> "[SUPERSEDED by #id]", id |-> new_id, text |-> ""]
ArchivedMarker(reason) == [line |-> "[ARCHIVED: text]", id |-> NoId, text |-> reason]

\* the archived flag flipped instead of set
archive_superseded_toggled(row, new_id) ==
    [row EXCEPT !.is_archived = ~@]

\* the archival with the marker appended whether or not the row was archived
archive_superseded_always_marked(row, new_id) ==
    [row EXCEPT !.is_archived = TRUE,
                !.source_context = Append(@, SupersededMarker(new_id))]

\* lines 160-166: archive the superseded row
archive_superseded(row, new_id) ==
    IF ~row.is_archived
    THEN [row EXCEPT !.is_archived = TRUE,
                     !.source_context = Append(@, SupersededMarker(new_id))]
    ELSE row

\* the suggest tier with its upper limit forgotten
suggest_tier_unlimited_above(similar, suggest_threshold, link_threshold, max_suggestions) ==
    Prefix(SelectSeq(similar, LAMBDA p : suggest_threshold <= p[2]),
           max_suggestions)

\* lines 198-201: the two tiers
auto_tier_of(similar, link_threshold) ==
    SelectSeq(similar, LAMBDA p : p[2] >= link_threshold)

suggest_tier_of(similar, suggest_threshold, link_threshold, max_suggestions) ==
    Prefix(SelectSeq(similar,
                     LAMBDA p : suggest_threshold <= p[2] /\ p[2] < link_threshold),
           max_suggestions)

\* the classification taken as the model gave it, without the guard
auto_edge_type_unguarded(should_classify, reply) ==
    IF should_classify /\ reply.kind = "reply"
    THEN normalize_edge_type_unguarded(reply.text)
    ELSE "relates_to"

\* lines 221-231: the type and the direction of one auto-link edge
auto_edge_type(should_classify, reply) ==
    IF should_classify THEN classify_edge_type(reply) ELSE "relates_to"

is_bidirectional(edge_type) == edge_type \in {"relates_to", "contradicts"}

AutoLinkMetadata(should_classify) ==
    [auto_linked |-> TRUE, method |-> "embedding_similarity",
     classified |-> should_classify]

\* lines 216-252: the edges staged for the auto tier
RECURSIVE auto_link_edges(_, _, _, _, _, _)
auto_link_edges(tier, new_id, supersedes_id, should_classify, replies, instance_id) ==
    IF tier = <<>> THEN <<>>
    ELSE LET target_id == Head(tier)[1]
             score == Head(tier)[2]
             edge_type == auto_edge_type(should_classify, replies[target_id])
             rest == auto_link_edges(Tail(tier), new_id, supersedes_id,
                                     should_classify, replies, instance_id)
         IN  IF target_id = supersedes_id THEN rest
             ELSE <<MemoryEdge(new_id, target_id, edge_type, score,
                               is_bidirectional(edge_type),
                               AutoLinkMetadata(should_classify), instance_id)>>
                  \o rest

\* lines 216-228: the generation requests of the auto-tier loop, one for each
\* classify_edge_type call that finds a classification model
classification_requests(tier, supersedes_id, should_classify, replies) ==
    Cardinality({k \in 1..Len(tier) :
                    /\ tier[k][1] # supersedes_id
                    /\ should_classify
                    /\ replies[tier[k][1]] # NO_MODEL})

\* lines 255-262
suggested_links_of(tier, supersedes_id) ==
    LET kept == SelectSeq(tier, LAMBDA p : p[1] # supersedes_id) IN
    [i \in 1..Len(kept) |-> [target |-> kept[i][1], score |-> kept[i][2]]]

\* remember(...).  embedding is what get_embedding returned (None when it
\* failed); replies[t] is what the model server answers when the edge to
\* target t is classified.  The handler commits four times: the row, its
\* embedding, the supersession, the auto-link edges; an exception raised
\* later does not undo an earlier commit.
remember(instance_id, memory_type, content, subject, keywords, tags, importance, project, source_type, source_context, source_session_id, supersedes_id, auto_link, embedding, replies) ==
    LET args == [importance |-> importance, supersedes_id |-> supersedes_id,
                 auto_link |-> auto_link, source_type |-> source_type,
                 project |-> project, memory_type |-> memory_type,
                 content |-> content, subject |-> subject,
                 keywords |-> keywords, tags |-> tags]
        new_id == Len(memories) + 1
        row == Memory(instance_id, project, memory_type, content, subject,
                      keywords, tags, clamp_importance(importance),
                      source_type, source_context, source_session_id)
        rows1 == Append(memories, row)
        rows2 == IF embedding # None
                 THEN [rows1 EXCEPT ![new_id].embedding = embedding]
                 ELSE rows1
        \* explicit supersession
        old_found == supersedes_id # NoId /\ supersedes_id \in 1..Len(rows2)
        sup_edge == MemoryEdge(new_id, supersedes_id, "supersedes", 100, FALSE,
                               [superseded_at |-> "now"], instance_id)
        sup_ok == edge_constraints_ok(edges, <<sup_edge>>)
        rows3 == IF old_found
                 THEN [rows2 EXCEPT ![supersedes_id] = archive_superseded(@, new_id)]
                 ELSE rows2
        edges3 == IF old_found THEN edges \cup {sup_edge} ELSE edges
        sup_links == IF old_found
                     THEN <<[target |-> supersedes_id, type |-> "supersedes",
                             score |-> 100]>>
                     ELSE <<>>
        \* auto-link
        should_auto_link == IF auto_link # "None" THEN auto_link = "True"
                            ELSE config.enabled
        run_pass == should_auto_link /\ embedding # None
        key_error == ~({"link_threshold", "suggest_threshold", "max_suggestions"}
                          \subseteq DOMAIN config)
        similar_project == IF config.same_project_only THEN project ELSE ""
        similar == find_similar_memories(rows3, embedding, new_id,
                                         similar_project, config.suggest_threshold)
        auto_tier == auto_tier_of(similar, config.link_threshold)
        suggest_tier == suggest_tier_of(similar, config.suggest_threshold,
                                        config.link_threshold, config.max_suggestions)
        should_classify == Get(config, "classify_edges", TRUE)
        staged == auto_link_edges(auto_tier, new_id, supersedes_id,
                                  should_classify, replies, instance_id)
        auto_ok == edge_constraints_ok(edges3, staged)
        requests == classification_requests(auto_tier, supersedes_id,
                                            should_classify, replies)
        auto_links == [i \in 1..Len(staged) |->
                         [target |-> staged[i].target_id,
                          type |-> staged[i].relation_type,
                          score |-> staged[i].strength]]
        Outcome(status, rows, es, embedded, links, suggested, ran) ==
            /\ memories' = rows
            /\ edges' = es
            /\ result' = [op |-> "remember", status |-> status, id |-> new_id,
                          args |-> args, embedded |-> embedded,
                          links_created |-> links, suggested_links |-> suggested,
                          auto_link_pass |-> ran,
                          generation_requests |->
                              IF ran \in {"ran", "raised"} THEN requests ELSE 0]
    IN
    /\ IF source_type \notin VALID_SOURCE_TYPES
       THEN /\ result' = [op |-> "remember", status |-> "error", id |-> NoId,
                          args |-> args, embedded |-> FALSE,
                          links_created |-> <<>>, suggested_links |-> <<>>,
                          auto_link_pass |-> "no", generation_requests |-> 0]
            /\ UNCHANGED <<memories, edges>>
       ELSE IF ~check_importance_range(row)
       THEN Outcome("IntegrityError", memories, edges, FALSE, <<>>, <<>>, "no")
       ELSE IF old_found /\ ~sup_ok
       THEN Outcome("IntegrityError", rows2, edges, embedding # None,
                    <<>>, <<>>, "no")
       ELSE IF ~run_pass
       THEN Outcome("ok", rows3, edges3, embedding # None, sup_links, <<>>, "no")
       ELSE IF key_error
       THEN Outcome("KeyError", rows3, edges3, TRUE, <<>>, <<>>, "KeyError")
       ELSE IF ~auto_ok
       THEN Outcome("IntegrityError", rows3, edges3, TRUE, <<>>, <<>>, "raised")
       ELSE Outcome("ok", rows3, edges3 \cup SeqToSet(staged), TRUE,
                    sup_links \o auto_links,
                    suggested_links_of(suggest_tier, supersedes_id), "ran")
    /\ UNCHANGED <<config, cls, readers, handoff_vars, process_vars>>

\* The three module-level caches of the detected model names: of
\* embeddings.py, _detected_embedding_model, and of llm.py,
\* _detected_llm_model and _detected_classification_model.  "" is None.
EmptyModelCache == [embedding |-> "", llm |-> "", classification |-> ""]

NoModelCall == [op |-> "none", role |-> "", out |-> "", probed |-> 0]

ModelCall(role, out, probed) ==
    [op |-> "detect", role |-> role, out |-> out, probed |-> probed]

\* _detect_embedding_model() and _detect_llm_model(): found is the model the
\* preference list selects from the answer to the list-models probe, "" when
\* the probe fails or nothing suits
detect_model(role, found) ==
    /\ IF model_cache[role] # ""
       THEN /\ model_call' = ModelCall(role, model_cache[role], 0)
            /\ UNCHANGED <<model_cache, probes>>
       ELSE /\ model_cache' = [model_cache EXCEPT ![role] = found]
            /\ probes' = probes + 1
            /\ model_call' = ModelCall(role, found, 1)
    /\ UNCHANGED <<memories, edges, config, result, cls, readers, handoff_vars, synthesis_enabled, remembering, embedding_call>>

\* _detect_classification_model(): configured is auto_link.classification_model;
\* without a preferred small model the main LLM model is taken, from its
\* cache or by a probe of its own
detect_classification_model(configured, server_up, found, llm_found) ==
    LET cached == model_cache.classification
        fallback == IF model_cache.llm # "" THEN model_cache.llm ELSE llm_found
    IN
    /\ IF cached # ""
       THEN /\ model_call' = ModelCall("classification", cached, 0)
            /\ UNCHANGED <<model_cache, probes>>
       ELSE IF configured # ""
       THEN /\ model_cache' = [model_cache EXCEPT !.classification = configured]
            /\ model_call' = ModelCall("classification", configured, 0)
            /\ UNCHANGED probes
       ELSE IF ~server_up
       THEN /\ probes' = probes + 1
            /\ model_call' = ModelCall("classification", "", 1)
            /\ UNCHANGED model_cache
       ELSE IF found # ""
       THEN /\ model_cache' = [model_cache EXCEPT !.classification = found]
            /\ probes' = probes + 1
            /\ model_call' = ModelCall("classification", found, 1)
       ELSE /\ model_cache' = [model_cache EXCEPT !.classification = fallback,
                                                  !.llm = fallback]
            /\ probes' = IF model_cache.llm # "" THEN probes + 1 ELSE probes + 2
            /\ model_call' = ModelCall("classification", fallback,
                                       IF model_cache.llm # "" THEN 1 ELSE 2)
    /\ UNCHANGED <<memories, edges, config, result, cls, readers, handoff_vars, synthesis_enabled, remembering, embedding_call>>

\* clear_model_cache() of the module named: embeddings.py lines 326-329,
\* llm.py lines 163-167
clear_model_cache(module) ==
    /\ model_cache' =
         IF module = "embeddings"
         THEN [model_cache EXCEPT !.embedding = ""]
         ELSE [model_cache EXCEPT !.llm = "", !.classification = ""]
    /\ model_call' = [op |-> "clear_model_cache", role |-> module, out |-> "",
                      probed |-> 0]
    /\ UNCHANGED <<memories, edges, config, result, cls, readers, handoff_vars, synthesis_enabled, remembering, embedding_call, probes>>

\* get_embedding(text, model).  embedding_call holds the responses the
\* model server gave to the requests of the call, the backoff delays taken
\* and what the call returned.
EMBEDDING_MAX_RETRIES == 3

NoEmbeddingCall ==
    [status |-> "idle", attempt |-> 0, responses |-> <<>>, sleeps |-> 0,
     out |-> None]

\* what a request to /api/embeddings can end in
Responses ==
    { "vector", "empty_vector", "context_length_error", "other_error",
      "malformed_json", "connection_error", "timeout" }

\* the loop with the delay taken after every failed attempt, the last included
get_embedding_attempt_always_sleeps(response, vector) ==
    LET c == embedding_call
        responses == Append(c.responses, response)
    IN
    /\ c.status = "running"
    /\ embedding_call' =
         IF response = "context_length_error"
         THEN [c EXCEPT !.status = "returned", !.responses = responses,
                        !.out = None]
         ELSE IF response = "vector"
         THEN [c EXCEPT !.status = "returned", !.responses = responses,
                        !.out = vector]
         ELSE IF c.attempt < EMBEDDING_MAX_RETRIES - 1
         THEN [c EXCEPT !.attempt = @ + 1, !.responses = responses,
                        !.sleeps = @ + 1]
         ELSE [c EXCEPT !.status = "returned", !.attempt = @ + 1,
                        !.responses = responses, !.sleeps = @ + 1,
                        !.out = None]
    /\ UNCHANGED <<memories, edges, config, result, cls, readers, handoff_vars, synthesis_enabled, remembering, model_cache, probes, model_call>>

\* lines 155-170: no request is made for a blank text or without a model
get_embedding_start(text_blank, model_found) ==
    /\ embedding_call.status \in {"idle", "returned"}
    /\ embedding_call' =
         IF text_blank \/ ~model_found
         THEN [NoEmbeddingCall EXCEPT !.status = "returned"]
         ELSE [NoEmbeddingCall EXCEPT !.status = "running"]
    /\ UNCHANGED <<memories, edges, config, result, cls, readers, handoff_vars, synthesis_enabled, remembering, model_cache, probes, model_call>>

\* lines 172-269: one pass of the loop, from the request to the delay; the
\* pass that ends the loop returns
get_embedding_attempt(response, vector) ==
    LET c == embedding_call
        responses == Append(c.responses, response)
    IN
    /\ c.status = "running"
    /\ embedding_call' =
         IF response = "context_length_error"
         THEN [c EXCEPT !.status = "returned", !.responses = responses,
                        !.out = None]
         ELSE IF response = "vector"
         THEN [c EXCEPT !.status = "returned", !.responses = responses,
                        !.out = vector]
         ELSE IF c.attempt < EMBEDDING_MAX_RETRIES - 1
         THEN [c EXCEPT !.attempt = @ + 1, !.responses = responses,
                        !.sleeps = @ + 1]
         ELSE [c EXCEPT !.status = "returned", !.attempt = @ + 1,
                        !.responses = responses, !.out = None]
    /\ UNCHANGED <<memories, edges, config, result, cls, readers, handoff_vars, synthesis_enabled, remembering, model_cache, probes, model_call>>

\* no remember call is between its commits
NotRemembering == [id |-> NoId, args |-> <<>>]

\* remember(..., supersedes_id=None, auto_link=False) as the two
\* transactions it is.  Lines 114-129: the row is added and committed
\* without an embedding.
remember_commit_row(instance_id, memory_type, content, importance, project, source_type) ==
    LET args == [importance |-> importance, supersedes_id |-> NoId,
                 auto_link |-> "False", source_type |-> source_type,
                 project |-> project, memory_type |-> memory_type,
                 content |-> content, subject |-> None,
                 keywords |-> None, tags |-> None]
    IN
    /\ remembering = NotRemembering
    /\ source_type \in VALID_SOURCE_TYPES
    /\ memories' = Append(memories,
                          Memory(instance_id, project, memory_type, content, None,
                                 None, None, clamp_importance(importance),
                                 source_type, <<>>, ""))
    /\ remembering' = [id |-> Len(memories) + 1, args |-> args]
    /\ UNCHANGED <<edges, config, result, cls, readers, handoff_vars, synthesis_enabled, embedding_call, model_cache, probes, model_call>>

\* Lines 131-139 and 264-279: the embedding get_embedding returned is set on
\* the row and committed (the UPDATE writes the embedding column only), and
\* the call returns.
remember_commit_embedding(embedding) ==
    /\ remembering # NotRemembering
    /\ memories' = IF embedding # None
                   THEN [memories EXCEPT ![remembering.id].embedding = embedding]
                   ELSE memories
    /\ result' = [op |-> "remember", status |-> "ok", id |-> remembering.id,
                  args |-> remembering.args, embedded |-> embedding # None,
                  links_created |-> <<>>, suggested_links |-> <<>>,
                  auto_link_pass |-> "no", generation_requests |-> 0]
    /\ remembering' = NotRemembering
    /\ UNCHANGED <<edges, config, cls, readers, handoff_vars, synthesis_enabled, embedding_call, model_cache, probes, model_call>>

----------------------------------------------------------------------------
(* recall *)

\* s.split()
RECURSIVE split(_)
split(s) ==
    LET t == lstrip(s, WS)
        w == take_word(t)
    IN  IF t = <<>> THEN <<>>
        ELSE <<w>> \o split(SubSeq(t, Len(w) + 1, Len(t)))

\* SQL LIKE: % matches any run of characters, _ any one character
RECURSIVE like(_, _)
like(s, pattern) ==
    IF pattern = <<>> THEN s = <<>>
    ELSE IF Head(pattern) = "%"
    THEN like(s, Tail(pattern)) \/ (s # <<>> /\ like(Tail(s), pattern))
    ELSE /\ s # <<>>
         /\ (Head(pattern) = "_" \/ Head(pattern) = Head(s))
         /\ like(Tail(s), Tail(pattern))

\* column.ilike(pattern); a NULL column matches nothing
ilike(column, pattern) ==
    column # None /\ like(lower(column), lower(pattern))

\* keywords.cast(String): the array's text form, {a,b}; an element with a
\* blank or a comma is quoted
RECURSIVE join_array(_)
join_array(ks) ==
    IF ks = <<>> THEN <<>>
    ELSE LET k == Head(ks)
             quoted == IF \E i \in 1..Len(k) : k[i] \in WS \cup {","}
                       THEN <<"\"">> \o k \o <<"\"">> ELSE k
         IN  quoted \o (IF Len(ks) > 1 THEN <<",">> ELSE <<>>) \o join_array(Tail(ks))

cast_keywords(keywords) ==
    IF keywords = None THEN None ELSE <<"{">> \o join_array(keywords) \o <<"}">>

word_pattern(word) == <<"%">> \o word \o <<"%">>

\* the base query without the is_archived filter
base_filter_with_archived(row, f) ==
    /\ (f.instance_id # "" => row.instance_id = f.instance_id)
    /\ (f.project # "" => row.project = f.project)
    /\ (f.memory_type # "" => row.memory_type = f.memory_type)
    /\ (f.subject # <<>> => ilike(row.subject, word_pattern(f.subject)))
    /\ (f.min_importance # 0 => row.importance >= f.min_importance)

\* lines 438-460: the filters of the base query.  f holds the arguments;
\* a text argument that is empty and a number that is 0 are not applied.
base_filter(row, f) ==
    /\ (~f.include_archived => row.is_archived = FALSE)
    /\ (f.instance_id # "" => row.instance_id = f.instance_id)
    /\ (f.project # "" => row.project = f.project)
    /\ (f.memory_type # "" => row.memory_type = f.memory_type)
    /\ (f.subject # <<>> => ilike(row.subject, word_pattern(f.subject)))
    /\ (f.min_importance # 0 => row.importance >= f.min_importance)

\* lines 493-504: every word of the query matches content, subject or keywords
keyword_filter(row, query) ==
    \A w \in SeqToSet(split(strip(query))) :
        \/ ilike(row.content, word_pattern(w))
        \/ ilike(row.subject, word_pattern(w))
        \/ ilike(cast_keywords(row.keywords), word_pattern(w))

\* the ids of the rows that pass, in id order
ids_where(rows, kept) ==
    SelectSeq([i \in 1..Len(rows) |-> i], LAMBDA i : i \in kept)

\* lines 469-488: (id, score) pairs of the semantic path, best first
semantic_scored(rows, f, query_embedding) ==
    LET ids == ids_where(rows, {i \in 1..Len(rows) : base_filter(rows[i], f)})
        scored == [k \in 1..Len(ids) |->
                     IF rows[ids[k]].embedding # None
                     THEN <<ids[k], cosine_similarity(query_embedding,
                                                      rows[ids[k]].embedding)>>
                     ELSE <<ids[k], -100>>]
    IN  Prefix(sort_desc(scored), f.limit)

\* lines 506-513: ORDER BY importance DESC, access_count DESC, created_at DESC
\* (a later row has a later created_at)
keyword_before(rows, a, b) ==
    \/ rows[a].importance > rows[b].importance
    \/ /\ rows[a].importance = rows[b].importance
       /\ \/ rows[a].access_count > rows[b].access_count
          \/ rows[a].access_count = rows[b].access_count /\ a > b

RECURSIVE insert_ordered(_, _, _)
insert_ordered(rows, sorted, x) ==
    IF sorted = <<>> THEN <<x>>
    ELSE IF keyword_before(rows, x, Head(sorted)) THEN <<x>> \o sorted
    ELSE <<Head(sorted)>> \o insert_ordered(rows, Tail(sorted), x)

RECURSIVE order_rows(_, _)
order_rows(rows, ids) ==
    IF ids = <<>> THEN <<>>
    ELSE insert_ordered(rows, order_rows(rows, Tail(ids)), Head(ids))

keyword_ids(rows, f, query) ==
    LET ids == ids_where(rows,
                 {i \in 1..Len(rows) :
                     /\ base_filter(rows[i], f)
                     /\ (query # <<>> => keyword_filter(rows[i], query))})
    IN  Prefix(order_rows(rows, ids), f.limit)

\* the rows recall returns, in order, with their scores (semantic path)
recall_scored(rows, f, query, query_embedding) ==
    IF query_embedding # None
    THEN semantic_scored(rows, f, query_embedding)
    ELSE LET ids == keyword_ids(rows, f, query) IN
         [k \in 1..Len(ids) |-> <<ids[k], 0>>]

search_method_of(query_embedding) ==
    IF query_embedding # None THEN "semantic" ELSE "keyword (fallback)"

\* lines 516-520, 754-757, 790-794: the access bookkeeping of a read,
\* written from the value each row had when it was loaded
bump_access(rows, ids, loaded) ==
    [i \in 1..Len(rows) |->
        IF i \in ids THEN [rows[i] EXCEPT !.access_count = loaded[i] + 1]
        ELSE rows[i]]

AccessCounts(rows) == [i \in 1..Len(rows) |-> rows[i].access_count]

Firsts(pairs) == [k \in 1..Len(pairs) |-> pairs[k][1]]

\* recall(query, ...) with f the filter arguments; query_embedding is what
\* get_embedding returned for the query; llm_available what is_llm_available
\* answers when a synthesis is asked for
recall(query, f, synthesize, query_embedding, llm_available) ==
    LET scored == recall_scored(memories, f, query, query_embedding)
        ids == Firsts(scored)
        method == search_method_of(query_embedding)
    IN
    /\ memories' = bump_access(memories, SeqToSet(ids), AccessCounts(memories))
    /\ result' = [op |-> "recall", status |-> "ok", args |-> f,
                  ids |-> ids,
                  scores |-> IF query_embedding # None
                             THEN [k \in 1..Len(scored) |-> scored[k][2]]
                             ELSE <<>>,
                  search_method |-> method,
                  no_llm |-> synthesize /\ ~llm_available,
                  shape |-> IF synthesize THEN "summary" ELSE "memories",
                  generation_requests |->
                      IF synthesize /\ llm_available /\ ids # <<>>
                      THEN 1 ELSE 0]
    /\ UNCHANGED <<edges, config, cls, readers, handoff_vars, process_vars>>

----------------------------------------------------------------------------
(* forget, the by-id reads, update_memory, backfill_embeddings, reflect *)

Exists(memory_id) == memory_id \in 1..Len(memories)

\* forget(memory_id, reason); reason "" stands for None
forget(memory_id, reason) ==
    /\ IF ~Exists(memory_id)
       THEN UNCHANGED memories
       ELSE memories' =
              [memories EXCEPT ![memory_id] =
                 [@ EXCEPT !.is_archived = TRUE,
                           !.source_context =
                               IF reason # "" THEN Append(@, ArchivedMarker(reason))
                               ELSE @]]
    /\ result' = [op |-> "forget",
                  status |-> IF Exists(memory_id) THEN "ok" ELSE "error",
                  id |-> memory_id, args |-> [reason |-> reason]]
    /\ UNCHANGED <<edges, config, cls, readers, handoff_vars, process_vars>>

\* models_v2.py line 143: the length of content_preview
PREVIEW_LENGTH == 200

Dots == <<".", ".", ".">>

\* to_dict with keywords and tags taken from each other's column
to_dict_swapped(row, id, detail_level) ==
    [id |-> id, instance_id |-> row.instance_id, project |-> row.project,
     memory_type |-> row.memory_type, subject |-> row.subject,
     keywords |-> row.tags, tags |-> row.keywords,
     importance |-> row.importance, access_count |-> row.access_count,
     is_archived |-> row.is_archived, content |-> row.content,
     detail_level |-> detail_level]

\* Memory.to_dict(detail_level): the summary form carries content_preview
\* (here under the key content), the verbose form the content and the source
\* fields
to_dict(row, id, detail_level) ==
    LET base == [id |-> id, instance_id |-> row.instance_id,
                 project |-> row.project, memory_type |-> row.memory_type,
                 subject |-> row.subject, keywords |-> row.keywords,
                 tags |-> row.tags, importance |-> row.importance,
                 access_count |-> row.access_count,
                 is_archived |-> row.is_archived,
                 detail_level |-> detail_level]
    IN  IF detail_level = "summary"
        THEN base @@ [content |-> IF Len(row.content) > PREVIEW_LENGTH
                                  THEN SubSeq(row.content, 1, PREVIEW_LENGTH) \o Dots
                                  ELSE row.content]
        ELSE base @@ [content |-> row.content,
                      source_type |-> row.source_type,
                      source_context |-> row.source_context,
                      source_session_id |-> row.source_session_id]

\* get_memory_by_id(memory_id, detail_level)
get_memory_by_id(memory_id, detail_level) ==
    /\ IF ~Exists(memory_id)
       THEN UNCHANGED memories
       ELSE memories' = bump_access(memories, {memory_id}, AccessCounts(memories))
    /\ result' = [op |-> "get_memory_by_id",
                  status |-> IF Exists(memory_id) THEN "ok" ELSE "None",
                  id |-> memory_id,
                  memory |-> IF Exists(memory_id)
                             THEN to_dict(memories'[memory_id], memory_id,
                                          detail_level)
                             ELSE None]
    /\ UNCHANGED <<edges, config, cls, readers, handoff_vars, process_vars>>

\* one row per requested id that is stored, a repeated id counted again
found_ids_per_request(rows, memory_ids) ==
    SelectSeq(memory_ids, LAMBDA mid : mid \in 1..Len(rows))

\* line 784: Memory.id.in_(memory_ids): the rows found, each once, in id
\* order
found_ids_of(rows, memory_ids) ==
    ids_where(rows, SeqToSet(memory_ids))

\* line 788: the requested ids that are not found, as requested
not_found_of(rows, memory_ids) ==
    SelectSeq(memory_ids, LAMBDA mid : mid \notin 1..Len(rows))

\* get_memories_by_ids(memory_ids, detail_level, synthesize); synthesis is
\* what _synthesize_memories_with_llm returns if it is asked, None when the
\* model is unavailable.  An empty not_found is left out of the answer.
get_memories_by_ids(memory_ids, detail_level, synthesize, synthesis) ==
    LET found == found_ids_of(memories, memory_ids)
        not_found == not_found_of(memories, memory_ids)
        summarised == synthesize /\ Len(found) > 1 /\ synthesis # None
    IN
    /\ memories' = bump_access(memories, SeqToSet(found), AccessCounts(memories))
    /\ result' = [op |-> "get_memories_by_ids", status |-> "ok",
                  args |-> [memory_ids |-> memory_ids],
                  shape |-> IF summarised THEN "summary" ELSE "memories",
                  ids |-> found, count |-> Len(found),
                  memories |-> IF summarised THEN <<>>
                               ELSE [k \in 1..Len(found) |->
                                       to_dict(memories'[found[k]], found[k],
                                               detail_level)],
                  has_not_found |-> not_found # <<>>,
                  not_found |-> not_found]
    /\ UNCHANGED <<edges, config, cls, readers, handoff_vars, process_vars>>

\* update_memory(memory_id, ...): changes holds the arguments that are not
\* None; embedding is what get_embedding returns if it is asked
update_memory(memory_id, changes, regenerate_embedding, embedding) ==
    LET old == memories[memory_id]
        given(k) == k \in DOMAIN changes
        patched ==
            [old EXCEPT
               !.content = IF given("content") THEN changes.content ELSE @,
               !.subject = IF given("subject") THEN changes.subject ELSE @,
               !.memory_type = IF given("memory_type") THEN changes.memory_type ELSE @,
               !.keywords = IF given("keywords") THEN changes.keywords ELSE @,
               !.importance = IF given("importance")
                              THEN clamp_importance(changes.importance) ELSE @]
        embedding_fields_changed ==
            given("content") \/ given("subject") \/ given("memory_type")
        regenerated == regenerate_embedding /\ embedding_fields_changed
        final == IF regenerated /\ embedding # None
                 THEN [patched EXCEPT !.embedding = embedding] ELSE patched
    IN
    /\ IF ~Exists(memory_id)
       THEN /\ UNCHANGED memories
            /\ result' = [op |-> "update_memory", status |-> "error",
                          id |-> memory_id, args |-> changes]
       ELSE IF ~check_importance_range(patched)
       THEN /\ UNCHANGED memories
            /\ result' = [op |-> "update_memory", status |-> "IntegrityError",
                          id |-> memory_id, args |-> changes]
       ELSE /\ memories' = [memories EXCEPT ![memory_id] = final]
            /\ result' = [op |-> "update_memory", status |-> "ok",
                          id |-> memory_id, args |-> changes]
    /\ UNCHANGED <<edges, config, cls, readers, handoff_vars, process_vars>>

\* the backfill over the rows that are not archived only
backfill_embeddings_live_only(embeddings) ==
    LET missing == {i \in 1..Len(memories) :
                       memories[i].embedding = None /\ ~memories[i].is_archived} IN
    /\ memories' = [i \in 1..Len(memories) |->
                      IF i \in missing /\ embeddings[i] # None
                      THEN [memories[i] EXCEPT !.embedding = embeddings[i]]
                      ELSE memories[i]]
    /\ result' = [op |-> "backfill_embeddings", status |-> "ok",
                  total |-> Cardinality(missing),
                  generated |-> Cardinality({i \in missing : embeddings[i] # None}),
                  failed |-> Cardinality({i \in missing : embeddings[i] = None})]
    /\ UNCHANGED <<edges, config, cls, readers, handoff_vars, process_vars>>

\* backfill_embeddings(): embeddings[i] is what get_embedding returns for row i
backfill_embeddings(embeddings) ==
    LET missing == {i \in 1..Len(memories) : memories[i].embedding = None} IN
    /\ memories' = [i \in 1..Len(memories) |->
                      IF i \in missing /\ embeddings[i] # None
                      THEN [memories[i] EXCEPT !.embedding = embeddings[i]]
                      ELSE memories[i]]
    /\ result' = [op |-> "backfill_embeddings", status |-> "ok",
                  total |-> Cardinality(missing),
                  generated |-> Cardinality({i \in missing : embeddings[i] # None}),
                  failed |-> Cardinality({i \in missing : embeddings[i] = None})]
    /\ UNCHANGED <<edges, config, cls, readers, handoff_vars, process_vars>>

\* lines 973-974
HIGH_IMPORTANCE_TYPES == {"insight", "decision", "architecture", "blocker", "gotcha"}

reflect_importance(mem_type) == IF mem_type \in HIGH_IMPORTANCE_TYPES THEN 7 ELSE 5

\* lines 972: the words of the subject longer than 3 characters
subject_keywords(subject) ==
    IF subject = None THEN None
    ELSE SelectSeq(split(subject), LAMBDA w : Len(w) > 3)

\* reflect(instance_id, transcript_path, session_id, dry_run) once the
\* transcript is read: extracted is the sequence of (type, subject, content)
\* lines parsed from the model's answer, <<>> when there is none;
\* embeddings[i] is what get_embedding returns for row i; session_id ""
\* stands for None
reflect(instance_id, session_id, dry_run, extracted, embeddings) ==
    LET n == Len(memories)
        new_rows == [k \in 1..Len(extracted) |->
                       Memory(instance_id, "life", extracted[k].type,
                              extracted[k].content, extracted[k].subject,
                              subject_keywords(extracted[k].subject), None,
                              reflect_importance(extracted[k].type),
                              "conversation",
                              <<TextLine("Extracted from transcript via LLM analysis")>>,
                              session_id)]
        inserted == memories \o new_rows
        to_embed == {i \in 1..Len(inserted) :
                        /\ inserted[i].embedding = None
                        /\ (session_id # "" =>
                              inserted[i].source_session_id = session_id)}
        embedded == {i \in to_embed : embeddings[i] # None}
    IN
    /\ IF extracted = <<>>
       THEN /\ UNCHANGED memories
            /\ result' = [op |-> "reflect", status |-> "error",
                          extracted |-> 0, embedded |-> 0, first_new |-> n + 1]
       ELSE IF dry_run
       THEN /\ UNCHANGED memories
            /\ result' = [op |-> "reflect", status |-> "ok",
                          extracted |-> Len(extracted), embedded |-> 0,
                          first_new |-> n + 1]
       ELSE /\ memories' = [i \in 1..Len(inserted) |->
                              IF i \in embedded
                              THEN [inserted[i] EXCEPT !.embedding = embeddings[i]]
                              ELSE inserted[i]]
            /\ result' = [op |-> "reflect", status |-> "ok",
                          extracted |-> Len(extracted),
                          embedded |-> Cardinality(embedded),
                          first_new |-> n + 1]
    /\ UNCHANGED <<edges, config, cls, readers, handoff_vars, process_vars>>

----------------------------------------------------------------------------
(* link_memories and supersede_memory: the graph operations behind the      *)
(* memory_link and memory_supersede tools                                   *)

\* link_memories(source_id, target_id, relation_type, strength,
\* bidirectional, metadata, created_by): inserts one edge; the schema rejects
\* a self-loop, a duplicate triple, an out-of-range strength and an endpoint
\* that is no memory
link_memories(source_id, target_id, relation_type, strength, bidirectional, metadata, created_by) ==
    LET edge == MemoryEdge(source_id, target_id, relation_type, strength,
                           bidirectional, metadata, created_by)
        ok == /\ Exists(source_id) /\ Exists(target_id)
              /\ edge_constraints_ok(edges, <<edge>>)
    IN
    /\ edges' = IF ok THEN edges \cup {edge} ELSE edges
    /\ result' = [op |-> "link_memories",
                  status |-> IF ok THEN "ok" ELSE "error",
                  args |-> [source_id |-> source_id, target_id |-> target_id,
                            relation_type |-> relation_type]]
    /\ UNCHANGED <<memories, config, cls, readers, handoff_vars, process_vars>>

\* supersede_memory(new_memory_id, old_memory_id, archive_old, created_by):
\* the supersedes edge new -> old and, if archive_old, the archival of old,
\* in one transaction
supersede_memory(new_memory_id, old_memory_id, archive_old, created_by) ==
    LET edge == MemoryEdge(new_memory_id, old_memory_id, "supersedes", 100,
                           FALSE, [superseded_at |-> "now"], created_by)
        ok == /\ Exists(new_memory_id) /\ Exists(old_memory_id)
              /\ edge_constraints_ok(edges, <<edge>>)
    IN
    /\ edges' = IF ok THEN edges \cup {edge} ELSE edges
    /\ memories' = IF ok /\ archive_old
                   THEN [memories EXCEPT ![old_memory_id].is_archived = TRUE]
                   ELSE memories
    /\ result' = [op |-> "supersede_memory",
                  status |-> IF ok THEN "ok" ELSE "error",
                  args |-> [new_memory_id |-> new_memory_id,
                            old_memory_id |-> old_memory_id,
                            archive_old |-> archive_old]]
    /\ UNCHANGED <<config, cls, readers, handoff_vars, process_vars>>

----------------------------------------------------------------------------
(* Concurrent reads: a read handler loads its rows, then writes the access  *)
(* bookkeeping and commits; other sessions may commit in between.           *)

\* the sessions that may be open at once (one per tool call in flight)
Procs == {"session_a", "session_b"}

Idle == [pc |-> "idle", op |-> "none", ids |-> {}, loaded |-> <<>>]

\* the query of a read handler: the session loads the rows it returns
load_rows(p, op, ids) ==
    /\ readers[p].pc = "idle"
    /\ readers' = [readers EXCEPT
                     ![p] = [pc |-> "loaded", op |-> op, ids |-> ids,
                             loaded |-> AccessCounts(memories)]]
    /\ result' = [op |-> op, status |-> "loading", by |-> p]
    /\ UNCHANGED <<memories, edges, config, cls, handoff_vars, process_vars>>

\* memory.access_count += 1 on every loaded row, and db.commit()
commit_access(p) ==
    /\ readers[p].pc = "loaded"
    /\ memories' = bump_access(memories, readers[p].ids, readers[p].loaded)
    /\ readers' = [readers EXCEPT ![p] = Idle]
    /\ result' = [op |-> readers[p].op, status |-> "ok", by |-> p]
    /\ UNCHANGED <<edges, config, cls, handoff_vars, process_vars>>

----------------------------------------------------------------------------
(* The handoff bus (services/handoff_service.py)                            *)

VALID_MESSAGE_TYPES == {"handoff", "status", "question", "fyi", "context"}

\* DEFAULT_CONFIG["instances"]
DEFAULT_INSTANCES == <<"default">>

\* get_instances(): the configured list, as the configuration file gives it
get_instances == instances

\* HandoffMessage(...): a new row is unread.  read_at is None or <<t>>, the
\* tick at which it was stamped; read_by "" stands for NULL.  created_at is
\* not kept: a later row has a later created_at
HandoffMessage(from_instance, to_instance, message_type, subject, content) ==
    [from_instance |-> from_instance, to_instance |-> to_instance,
     message_type |-> message_type, subject |-> subject, content |-> content,
     read_at |-> None, read_by |-> ""]

\* send_handoff(from_instance, to_instance, message_type, content, subject)
send_handoff(from_instance, to_instance, message_type, content, subject) ==
    LET valid_instances == SeqToSet(get_instances)
        valid_to_instances == valid_instances \cup {"all"}
        args == [from_instance |-> from_instance, to_instance |-> to_instance,
                 message_type |-> message_type]
        message == HandoffMessage(from_instance, to_instance, message_type,
                                  subject, content)
        Error == /\ result' = [op |-> "send_handoff", status |-> "error",
                               id |-> NoId, args |-> args]
                 /\ UNCHANGED handoff_messages
    IN
    /\ IF from_instance \notin valid_instances THEN Error
       ELSE IF to_instance \notin valid_to_instances THEN Error
       ELSE IF message_type \notin VALID_MESSAGE_TYPES THEN Error
       ELSE /\ handoff_messages' = Append(handoff_messages, message)
            /\ result' = [op |-> "send_handoff", status |-> "ok",
                          id |-> Len(handoff_messages) + 1, args |-> args]
    /\ UNCHANGED <<memories, edges, config, cls, readers, instances, now, process_vars>>

\* line 128 without the filter: read messages are returned too
unread_filter_off(row, unread_only) == TRUE

\* lines 127-128: HandoffMessage.read_at.is_(None) when unread_only
unread_filter(row, unread_only) == unread_only => row.read_at = None

\* lines 120-125: addressed to this instance or to "all"
addressed_to(row, for_instance) ==
    row.to_instance = for_instance \/ row.to_instance = "all"

\* ORDER BY created_at DESC: a later row has a later created_at
RECURSIVE newest_first(_)
newest_first(ids) ==
    IF ids = <<>> THEN <<>> ELSE Append(newest_first(Tail(ids)), Head(ids))

\* lines 119-136: the ids the query of get_handoffs returns; message_type ""
\* stands for None
handoff_query(rows, for_instance, unread_only, message_type, limit) ==
    LET kept == {i \in 1..Len(rows) :
                    /\ addressed_to(rows[i], for_instance)
                    /\ unread_filter(rows[i], unread_only)
                    /\ (message_type # "" => rows[i].message_type = message_type)}
    IN  Prefix(newest_first(ids_where(rows, kept)), limit)

\* HandoffMessage.to_dict()
handoff_to_dict(rows, id) ==
    [id |-> id, from_instance |-> rows[id].from_instance,
     to_instance |-> rows[id].to_instance,
     message_type |-> rows[id].message_type, subject |-> rows[id].subject,
     content |-> rows[id].content, read_at |-> rows[id].read_at,
     read_by |-> rows[id].read_by]

\* get_handoffs(for_instance, unread_only, message_type, limit)
get_handoffs(for_instance, unread_only, message_type, limit) ==
    LET args == [for_instance |-> for_instance, unread_only |-> unread_only,
                 message_type |-> message_type, limit |-> limit]
        ids == handoff_query(handoff_messages, for_instance, unread_only,
                             message_type, limit)
        Error == [op |-> "get_handoffs", status |-> "error", args |-> args,
                  count |-> 0, ids |-> <<>>, messages |-> <<>>]
    IN
    /\ result' =
         IF for_instance \notin SeqToSet(get_instances) THEN Error
         ELSE IF message_type # "" /\ message_type \notin VALID_MESSAGE_TYPES
         THEN Error
         ELSE [op |-> "get_handoffs", status |-> "ok", args |-> args,
               count |-> Len(ids), ids |-> ids,
               messages |-> [k \in 1..Len(ids) |->
                               handoff_to_dict(handoff_messages, ids[k])]]
    /\ UNCHANGED <<memories, edges, config, cls, readers, handoff_vars, process_vars>>

\* mark_handoff_read with the test of read_by after the write: a message that
\* exists is stamped before the caller is refused
mark_handoff_read_stamps_first(message_id, read_by) ==
    LET args == [message_id |-> message_id, read_by |-> read_by]
        found == message_id \in 1..Len(handoff_messages)
    IN
    /\ IF found
       THEN /\ handoff_messages' =
                 [handoff_messages EXCEPT ![message_id] =
                    [@ EXCEPT !.read_at = <<now>>, !.read_by = read_by]]
            /\ now' = now + 1
       ELSE UNCHANGED <<handoff_messages, now>>
    /\ result' = [op |-> "mark_handoff_read",
                  status |-> IF found /\ read_by \in SeqToSet(get_instances)
                             THEN "ok" ELSE "error",
                  args |-> args]
    /\ UNCHANGED <<memories, edges, config, cls, readers, instances, process_vars>>

\* mark_handoff_read(message_id, read_by); the clock has moved on when the
\* next call reads it
mark_handoff_read(message_id, read_by) ==
    LET args == [message_id |-> message_id, read_by |-> read_by]
        found == message_id \in 1..Len(handoff_messages)
        Error == /\ result' = [op |-> "mark_handoff_read", status |-> "error",
                               args |-> args]
                 /\ UNCHANGED <<handoff_messages, now>>
    IN
    /\ IF read_by \notin SeqToSet(get_instances) THEN Error
       ELSE IF ~found THEN Error
       ELSE /\ handoff_messages' =
                 [handoff_messages EXCEPT ![message_id] =
                    [@ EXCEPT !.read_at = <<now>>, !.read_by = read_by]]
            /\ now' = now + 1
            /\ result' = [op |-> "mark_handoff_read", status |-> "ok",
                          args |-> args]
    /\ UNCHANGED <<memories, edges, config, cls, readers, instances, process_vars>>

----------------------------------------------------------------------------
(* Initial state: an empty store, no call made yet *)

NoResult == [op |-> "none", status |-> "none"]

\* config_v2.py DEFAULT_CONFIG: synthesis.enabled is True
InitServer ==
    /\ synthesis_enabled = TRUE
    /\ remembering = NotRemembering
    /\ embedding_call = NoEmbeddingCall
    /\ model_cache = EmptyModelCache
    /\ probes = 0
    /\ model_call = NoModelCall

AccessorConfig == get_auto_link_config([enabled |-> TRUE])

InitStore ==
    /\ memories = <<>>
    /\ edges = {}
    /\ result = NoResult
    /\ cls = NoCall
    /\ readers = [p \in Procs |-> Idle]
    /\ handoff_messages = <<>>
    /\ instances = DEFAULT_INSTANCES
    /\ now = 0
    /\ InitServer

----------------------------------------------------------------------------
(* Spec: the memory graph.  remember with supersession and the auto-link    *)
(* pass, forget, link_memories and supersede_memory                         *)

MaxMemories == 2
MaxEdges == 2

\* the dictionary remember gets from get_auto_link_config(): the accessor's
\* own, or one that also holds the keys of the two tiers
GraphConfigs == {AccessorConfig, tiered_auto_link_config([enabled |-> TRUE])}

Init ==
    /\ InitStore
    /\ config \in GraphConfigs

Remember ==
    /\ Len(memories) < MaxMemories
    /\ \E supersedes_id \in 0..(Len(memories) + 1), auto_link \in {"None", "False"} :
          remember("code", "fact", <<"a">>, None, None, None, 5, "life",
                   "explicit", <<>>, "", supersedes_id, auto_link, <<3, 4>>,
                   [t \in 1..Len(memories) |-> Reply(W_supersedes)])

Forget ==
    \E memory_id \in 1..Len(memories) : forget(memory_id, "")

\* the edges asked for
LinkKinds ==
    { [relation_type |-> "supersedes", strength |-> 100],
      [relation_type |-> "relates_to", strength |-> 50] }

LinkMemories ==
    /\ Cardinality(edges) < MaxEdges
    /\ \E source_id \in 1..Len(memories), target_id \in 1..Len(memories),
          kind \in LinkKinds :
          link_memories(source_id, target_id, kind.relation_type, kind.strength,
                        FALSE, <<>>, "code")

SupersedeMemory ==
    /\ Cardinality(edges) < MaxEdges
    /\ \E new_memory_id \in 1..Len(memories), old_memory_id \in 1..Len(memories),
          archive_old \in BOOLEAN :
          supersede_memory(new_memory_id, old_memory_id, archive_old, "code")

Next == Remember \/ Forget \/ LinkMemories \/ SupersedeMemory

Spec == Init /\ [][Next]_vars

LinkArgsTriple(args) == <<args.source_id, args.target_id, args.relation_type>>

IsAutoLinked(e) == "auto_linked" \in DOMAIN e.metadata

C4_SupersessionByRemember ==
    [][ ( /\ result'.op = "remember" /\ result'.status = "ok"
          /\ result'.args.supersedes_id \in 1..Len(memories) )
        => LET o == result'.args.supersedes_id
               new == result'.id
           IN  /\ \E e \in edges' :
                    /\ EdgeTriple(e) = <<new, o, "supersedes">>
                    /\ e.strength = 100 /\ e.bidirectional = FALSE
               /\ memories'[o].is_archived
               /\ memories'[o].source_context =
                     IF memories[o].is_archived
                     THEN memories[o].source_context
                     ELSE Append(memories[o].source_context, SupersededMarker(new))
      ]_vars

\* remember superseded a memory that was archived already: it is archived, the
\* edge is there, and no marker names the new memory
C4_Witness ==
    /\ result.op = "remember" /\ result.status = "ok"
    /\ result.args.supersedes_id \in 1..(result.id - 1)
    /\ memories[result.args.supersedes_id].is_archived
    /\ \E e \in edges :
         EdgeTriple(e) = <<result.id, result.args.supersedes_id, "supersedes">>
    /\ SupersededMarker(result.id)
          \notin SeqToSet(memories[result.args.supersedes_id].source_context)

\* C4 as stated: after remember(..., supersedes_id = o) returns for an existing
\* memory o, archived or not beforehand, the edge is there, o is archived and
\* o.source_context ends with [SUPERSEDED by #new id].
C4_MarkerAlwaysAppended ==
    [][ ( /\ result'.op = "remember" /\ result'.status = "ok"
          /\ result'.args.supersedes_id \in 1..Len(memories) )
        => LET o == result'.args.supersedes_id
               new == result'.id
               context == memories'[o].source_context
           IN  /\ \E e \in edges' :
                    /\ EdgeTriple(e) = <<new, o, "supersedes">>
                    /\ e.strength = 100 /\ e.bidirectional = FALSE
               /\ memories'[o].is_archived
               /\ context # <<>>
               /\ context[Len(context)] = SupersededMarker(new)
      ]_vars

\* C6: there is at most one edge per (source_id, target_id, relation_type),
\* and a link_memories call whose triple is already in the table fails and
\* leaves the edges as they were.
C6_EdgeTripleUnique ==
    [][ /\ \A e1, e2 \in edges' : EdgeTriple(e1) = EdgeTriple(e2) => e1 = e2
        /\ ( /\ result'.op = "link_memories"
             /\ LinkArgsTriple(result'.args) \in {EdgeTriple(e) : e \in edges} )
           => (result'.status = "error" /\ edges' = edges) ]_vars

\* a link between two different memories was refused because its triple is
\* in the table
C6_Witness ==
    /\ result.op = "link_memories" /\ result.status = "error"
    /\ result.args.source_id # result.args.target_id
    /\ LinkArgsTriple(result.args) \in {EdgeTriple(e) : e \in edges}

\* C7: no edge has source_id = target_id; link_memories(x, x, ...) fails and
\* adds no edge; every edge a remember call adds leaves the new memory and
\* ends at another one.
C7_NoSelfLoops ==
    [][ /\ \A e \in edges' : e.source_id # e.target_id
        /\ ( /\ result'.op = "link_memories"
             /\ result'.args.source_id = result'.args.target_id )
           => (result'.status = "error" /\ edges' = edges)
        /\ result'.op = "remember"
           => \A e \in edges' \ edges :
                 e.source_id = result'.id /\ e.target_id # result'.id ]_vars

\* link_memories(x, x) was refused while x already had edges to other
\* memories
C7_Witness ==
    /\ result.op = "link_memories" /\ result.status = "error"
    /\ result.args.source_id = result.args.target_id
    /\ \E e \in edges : e.source_id = result.args.source_id

----------------------------------------------------------------------------
(* SpecAutoLink: the auto-link pass of remember over stores of embedded,    *)
(* unembedded and archived memories                                         *)

MaxCandidates == 2

\* what get_embedding returns: None when the embedding service fails
Embeddings == {None, <<3, 4>>, <<5, 0>>}

\* the dictionary remember gets from get_auto_link_config(): the accessor's
\* own, and dictionaries that also hold the keys of the two tiers
AutoLinkConfigs ==
    { AccessorConfig,
      tiered_auto_link_config([max_links |-> 1, max_suggestions |-> 1]),
      tiered_auto_link_config([similarity_threshold |-> 50,
                               suggest_threshold |-> 50]),
      tiered_auto_link_config([similarity_threshold |-> 100,
                               suggest_threshold |-> 70,
                               classify_edges |-> FALSE]) }

InitAutoLink ==
    /\ InitStore
    /\ config \in AutoLinkConfigs

RememberAutoLink ==
    /\ Len(memories) <= MaxCandidates
    /\ \E embedding \in Embeddings, supersedes_id \in 0..Len(memories),
          auto_link \in {"None", "False"} :
          remember("code", "fact", <<"a">>, None, None, None, 5, "life",
                   "explicit", <<>>, "", supersedes_id, auto_link, embedding,
                   [t \in 1..Len(memories) |-> Reply(W_refines)])

ForgetCandidate ==
    \E memory_id \in 1..Len(memories) : forget(memory_id, "")

NextAutoLink == RememberAutoLink \/ ForgetCandidate

SpecAutoLink == InitAutoLink /\ [][NextAutoLink]_vars

AutoEdgesOf(new_id) == {e \in edges : e.source_id = new_id /\ IsAutoLinked(e)}

Similarity(a, b) == cosine_similarity(memories[a].embedding, memories[b].embedding)

----------------------------------------------------------------------------
(* SpecImportance: the writers of importance under out-of-range arguments   *)

ImportanceArgs == {-3, 0, 1, 5, 10, 11, 15}

\* the lines reflect parses from the model's answer
ExtractedLines ==
    { <<>>,
      <<[type |-> "insight", subject |-> <<"a">>, content |-> <<"b">>]>>,
      <<[type |-> "fact", subject |-> None, content |-> <<"c">>],
        [type |-> "gotcha", subject |-> <<"a">>, content |-> <<"b">>]>> }

InitImportance ==
    /\ InitStore
    /\ config = AccessorConfig

RememberImportance ==
    /\ Len(memories) < MaxMemories
    /\ \E importance \in ImportanceArgs, source_type \in {"explicit", "hearsay"},
          embedding \in {None, <<3, 4>>} :
          remember("code", "fact", <<"a">>, None, None, None, importance,
                   "life", source_type, <<>>, "", NoId, "None", embedding, <<>>)

UpdateImportance ==
    \E memory_id \in 1..(Len(memories) + 1),
       changes \in {[importance |-> i] : i \in ImportanceArgs}
                     \cup {[content |-> <<"c">>]} :
       update_memory(memory_id, changes, TRUE, None)

ReflectImportance ==
    \E extracted \in ExtractedLines, dry_run \in BOOLEAN :
       /\ Len(memories) + Len(extracted) <= MaxMemories
       /\ reflect("code", "s1", dry_run, extracted,
                  [i \in 1..(Len(memories) + Len(extracted)) |-> None])

NextImportance == RememberImportance \/ UpdateImportance \/ ReflectImportance

SpecImportance == InitImportance /\ [][NextImportance]_vars

Clamped(i) == IF i < 1 THEN 1 ELSE IF i > 10 THEN 10 ELSE i

\* C1: every stored memory has an importance from 1 to 10.  A remember call
\* with a valid source_type stores its row (it does not fail on the
\* importance) with 1 for an argument below 1, 10 for one above 10 and the
\* argument otherwise; so does an update_memory call that gives an importance
\* for an existing memory; the rows reflect adds have importance 5 or 7.
C1_ImportanceInRange ==
    /\ \A i \in 1..Len(memories) :
         memories[i].importance >= 1 /\ memories[i].importance <= 10
    /\ (result.op = "remember" /\ result.args.source_type \in VALID_SOURCE_TYPES)
       => /\ result.status \in {"ok", "KeyError"}
          /\ result.id = Len(memories)
          /\ memories[result.id].importance = Clamped(result.args.importance)
    /\ ( /\ result.op = "update_memory"
         /\ result.id \in 1..Len(memories)
         /\ "importance" \in DOMAIN result.args )
       => /\ result.status = "ok"
          /\ memories[result.id].importance = Clamped(result.args.importance)
    /\ (result.op = "reflect" /\ result.status = "ok")
       => \A i \in result.first_new..Len(memories) :
             memories[i].importance \in {5, 7}

\* an importance of 15 was stored as 10 by remember and then an importance of
\* -3 as 1 by update_memory, next to a row made by reflect
C1_Witness ==
    /\ result.op = "update_memory" /\ result.status = "ok"
    /\ result.args = [importance |-> -3]
    /\ memories[result.id].importance = 1
    /\ \E i \in 1..Len(memories) : memories[i].importance = 10
    /\ \E i \in 1..Len(memories) : memories[i].source_type = "conversation"

----------------------------------------------------------------------------
(* SpecRecall: recall over live and archived memories, on both search paths *)

MaxRecalls == 1

\* the arguments of the remember calls that fill the store
RecallRows ==
    { [content |-> <<"a", "b">>, subject |-> None, importance |-> 7,
       embedding |-> <<3, 4>>],
      [content |-> <<"c">>, subject |-> <<"A">>, importance |-> 3,
       embedding |-> None] }

DefaultFilter ==
    [include_archived |-> FALSE, instance_id |-> "", project |-> "",
     memory_type |-> "", subject |-> <<>>, min_importance |-> 0, limit |-> 20]

RecallFilters ==
    { [f EXCEPT !.include_archived = a] :
        a \in BOOLEAN,
        f \in { DefaultFilter,
                [DefaultFilter EXCEPT !.project = "life", !.instance_id = "code",
                                      !.memory_type = "fact", !.subject = <<"a">>,
                                      !.min_importance = 2, !.limit = 1] } }

\* the query texts, each with what get_embedding returns for it
Queries ==
    { [text |-> <<>>, embedding |-> None],
      [text |-> <<" ", "C", " ", "a">>, embedding |-> None],
      [text |-> <<"a">>, embedding |-> <<3, 4>>] }

InitRecall ==
    /\ InitStore
    /\ config = AccessorConfig

RememberRow ==
    /\ Len(memories) < MaxMemories
    /\ \E row \in RecallRows, supersedes_id \in 0..Len(memories) :
          remember("code", "fact", row.content, row.subject, None, None,
                   row.importance, "life", "explicit", <<>>, "", supersedes_id,
                   "False", row.embedding, <<>>)

ForgetRow ==
    \E memory_id \in 1..Len(memories) : forget(memory_id, "")

Recall ==
    \E f \in RecallFilters, query \in Queries :
       /\ recall(query.text, f, FALSE, query.embedding, TRUE)
       /\ \A i \in 1..Len(memories) : memories'[i].access_count <= MaxRecalls

NextRecall == RememberRow \/ ForgetRow \/ Recall

SpecRecall == InitRecall /\ [][NextRecall]_vars

----------------------------------------------------------------------------
(* SpecReads: read handlers in concurrent sessions                          *)

MaxAccessCount == 2

InitReads ==
    /\ InitStore
    /\ config = AccessorConfig

RememberForReads ==
    /\ Len(memories) < MaxMemories
    /\ remember("code", "fact", <<"a">>, None, None, None, 5, "life",
                "explicit", <<>>, "", NoId, "False", None, <<>>)

CanCount(ids) == \A id \in ids : memories[id].access_count < MaxAccessCount

LoadRecall ==
    \E p \in Procs :
       LET ids == SeqToSet(Firsts(recall_scored(memories, DefaultFilter, <<>>, None)))
       IN  CanCount(ids) /\ load_rows(p, "recall", ids)

LoadGetMemoryById ==
    \E p \in Procs, memory_id \in 1..Len(memories) :
       CanCount({memory_id}) /\ load_rows(p, "get_memory_by_id", {memory_id})

LoadGetMemoriesByIds ==
    \E p \in Procs, memory_ids \in {<<1>>, <<2, 1>>, <<2, 9>>} :
       LET ids == SeqToSet(found_ids_of(memories, memory_ids))
       IN  CanCount(ids) /\ load_rows(p, "get_memories_by_ids", ids)

CommitAccess == \E p \in Procs : commit_access(p)

NextReads ==
    \/ RememberForReads
    \/ LoadRecall
    \/ LoadGetMemoryById
    \/ LoadGetMemoriesByIds
    \/ CommitAccess

SpecReads == InitReads /\ [][NextReads]_vars

\* C10: no step of the read handlers, run one after another or in concurrent
\* sessions, lowers the access_count of a memory.
C10_AccessCountNeverDecreases ==
    [][ \A i \in 1..Len(memories) :
          memories'[i].access_count >= memories[i].access_count ]_vars

----------------------------------------------------------------------------
(* SpecClassifier: the edge-type classifier under every reply *)

InitClassifier ==
    /\ memories = <<>>
    /\ edges = {}
    /\ result = NoResult
    /\ readers = [p \in Procs |-> Idle]
    /\ handoff_messages = <<>>
    /\ instances = DEFAULT_INSTANCES
    /\ now = 0
    /\ InitServer
    /\ config = AccessorConfig
    /\ cls \in ClassifierCalls

NextClassifier == ClassifyEdgeType \/ ClassifyEdgeTypesBatch

SpecClassifier == InitClassifier /\ [][NextClassifier]_vars

AutoEdgeTypes ==
    {"relates_to", "derived_from", "contradicts", "exemplifies", "refines"}

----------------------------------------------------------------------------
(* SpecGet: memories are stored and read back by id                         *)

MaxGets == 1

\* the arguments of the remember calls
RememberArgs ==
    { [memory_type |-> "fact", content |-> <<"a">>, subject |-> None,
       keywords |-> None, tags |-> None, importance |-> 5,
       project |-> "life", source_type |-> "explicit"],
      [memory_type |-> "insight", content |-> <<"b", "c">>, subject |-> <<"A">>,
       keywords |-> << <<"k">> >>, tags |-> << <<"t">>, <<"u">> >>,
       importance |-> 11, project |-> "work", source_type |-> "explicit"],
      [memory_type |-> "fact", content |-> <<"d">>, subject |-> <<"B">>,
       keywords |-> << <<"k">> >>, tags |-> None, importance |-> 0,
       project |-> "life", source_type |-> "hearsay"] }

\* the id lists of the batch reads: empty, repeated, unknown and mixed ids
IdLists == { <<>>, <<1>>, <<1, 1>>, <<2, 1, 2>>, <<7, 1>>, <<7, 7>> }

InitGet ==
    /\ InitStore
    /\ config \in GraphConfigs

RememberForGet ==
    /\ Len(memories) < MaxMemories
    /\ \E a \in RememberArgs, embedding \in {None, <<3, 4>>}, auto_link \in {"None", "False"} :
          remember("code", a.memory_type, a.content, a.subject, a.keywords,
                   a.tags, a.importance, a.project, a.source_type, <<>>, "",
                   NoId, auto_link, embedding,
                   [t \in 1..Len(memories) |-> Reply(W_refines)])

GetMemoryById ==
    \E memory_id \in 1..(Len(memories) + 1), detail_level \in {"verbose", "summary"} :
       /\ Exists(memory_id) => memories[memory_id].access_count < MaxGets
       /\ get_memory_by_id(memory_id, detail_level)

GetMemoriesByIds ==
    \E memory_ids \in IdLists, synthesize \in BOOLEAN, synthesis \in {None, <<"s">>} :
       /\ \A id \in SeqToSet(found_ids_of(memories, memory_ids)) :
             memories[id].access_count < MaxGets
       /\ get_memories_by_ids(memory_ids, "verbose", synthesize, synthesis)

NextGet == RememberForGet \/ GetMemoryById \/ GetMemoriesByIds

SpecGet == InitGet /\ [][NextGet]_vars

\* C11: get_memories_by_ids answers with count equal to the number of
\* distinct stored memories among the requested ids and with not_found equal
\* to the requested ids that are not stored (left out when there is none);
\* the found ids and not_found partition the requested ids.
C11_CountAndNotFound ==
    result.op = "get_memories_by_ids" =>
        LET requested == SeqToSet(result.args.memory_ids)
            stored == 1..Len(memories)
        IN  /\ result.count = Cardinality(requested \cap stored)
            /\ SeqToSet(result.ids) = requested \cap stored
            /\ SeqToSet(result.not_found) = requested \ stored
            /\ result.has_not_found <=> (requested \ stored # {})
            /\ SeqToSet(result.ids) \cup SeqToSet(result.not_found) = requested
            /\ SeqToSet(result.ids) \cap SeqToSet(result.not_found) = {}

\* a request with a repeated unknown id and one stored id has been answered
C11_Witness ==
    /\ result.op = "get_memories_by_ids"
    /\ result.args.memory_ids = <<2, 1, 2>>
    /\ Len(memories) = 1
    /\ result.count = 1
    /\ result.not_found = <<2, 2>>

\* the fields of an answer that remember was given
StoredFields(d) ==
    [content |-> d.content, subject |-> d.subject,
     memory_type |-> d.memory_type, keywords |-> d.keywords, tags |-> d.tags,
     project |-> d.project, importance |-> d.importance]

\* C17: after a successful remember, get_memory_by_id on the returned id
\* yields the content, subject, memory_type, keywords, tags and project that
\* were passed and the importance clamped to [1,10], whether or not the
\* embedding was generated and the auto-link pass ran; a read by id returns
\* these fields as they are stored.
C17_RememberGetRoundTrip ==
    [][/\ (result'.op = "remember" /\ result'.status = "ok") =>
             StoredFields(to_dict(memories'[result'.id], result'.id, "verbose"))
               = StoredFields([result'.args EXCEPT
                                 !.importance = Clamped(@)])
       /\ (result'.op = "get_memory_by_id" /\ result'.status = "ok") =>
             /\ StoredFields(result'.memory)
                  = StoredFields(to_dict(memories[result'.id], result'.id, "verbose"))
             /\ result'.memory.id = result'.id]_vars

\* a memory stored with importance 11 and no embedding has been read back
C17_Witness ==
    /\ result.op = "get_memory_by_id"
    /\ result.status = "ok"
    /\ result.memory.detail_level = "verbose"
    /\ result.memory.importance = 10
    /\ result.memory.keywords = << <<"k">> >>
    /\ result.memory.tags = << <<"t">>, <<"u">> >>
    /\ memories[result.id].embedding = None

----------------------------------------------------------------------------
(* SpecSemantic: recall on the semantic path, over memories with and        *)
(* without an embedding                                                     *)

\* what get_embedding returns for the stored texts: nothing (the model
\* server is down), or a vector; <<-3, -4>> points away from the query
RowEmbeddings == {None, <<3, 4>>, <<5, 0>>, <<-3, -4>>}

QueryEmbedding == <<3, 4>>

SemanticFilters ==
    {DefaultFilter, [DefaultFilter EXCEPT !.limit = 1]}

InitSemantic ==
    /\ InitStore
    /\ config = AccessorConfig

RememberEmbedded ==
    /\ Len(memories) < MaxMemories
    /\ \E embedding \in RowEmbeddings, importance \in {3, 7} :
          remember("code", "fact", <<"a">>, None, None, None, importance,
                   "life", "explicit", <<>>, "", NoId, "False", embedding, <<>>)

RecallSemantic ==
    \E f \in SemanticFilters :
       /\ recall(<<"a">>, f, FALSE, QueryEmbedding, TRUE)
       /\ \A i \in 1..Len(memories) : memories'[i].access_count <= MaxRecalls

NextSemantic == RememberEmbedded \/ RecallSemantic

SpecSemantic == InitSemantic /\ [][NextSemantic]_vars

\* C12: on the semantic path a returned memory has score -1.0 exactly when
\* it has no embedding, every returned memory without an embedding comes
\* after every returned memory with one, and a memory without an embedding
\* is returned only when fewer than limit embedded memories qualify.
C12_UnembeddedScoredLast ==
    (result.op = "recall" /\ result.search_method = "semantic") =>
        LET ids == result.ids
            embedded(id) == memories[id].embedding # None
            qualifying == {i \in 1..Len(memories) :
                              base_filter(memories[i], result.args) /\ embedded(i)}
        IN  /\ \A k \in 1..Len(ids) : (result.scores[k] = -100) <=> ~embedded(ids[k])
            /\ \A j, k \in 1..Len(ids) :
                  (embedded(ids[j]) /\ ~embedded(ids[k])) => j < k
            /\ (\E k \in 1..Len(ids) : ~embedded(ids[k]))
                  => Cardinality(qualifying) < result.args.limit

----------------------------------------------------------------------------
(* SpecHandoff: the handoff bus under every sequence of send_handoff,       *)
(* get_handoffs and mark_handoff_read calls                                 *)

MaxMessages == 2
MaxTicks == 2

\* get_handoffs: limit: int = 50
DEFAULT_LIMIT == 50

\* the "instances" lists of the configuration file
InstanceLists == { <<"desktop", "code">>, <<"all", "code">> }

\* the instance names the callers pass
InstanceNames == {"desktop", "code", "all"}

\* the arguments of the send_handoff calls
SendArgs ==
    { [from_instance |-> "desktop", to_instance |-> "all", message_type |-> "fyi"],
      [from_instance |-> "code", to_instance |-> "desktop", message_type |-> "fyi"],
      [from_instance |-> "all", to_instance |-> "code", message_type |-> "status"],
      [from_instance |-> "code", to_instance |-> "web", message_type |-> "fyi"],
      [from_instance |-> "code", to_instance |-> "all", message_type |-> "note"] }

\* the arguments of the get_handoffs calls (message_type "" stands for None)
GetArgs ==
    { [for_instance |-> "desktop", unread_only |-> TRUE, message_type |-> "", limit |-> DEFAULT_LIMIT],
      [for_instance |-> "code", unread_only |-> TRUE, message_type |-> "", limit |-> DEFAULT_LIMIT],
      [for_instance |-> "code", unread_only |-> FALSE, message_type |-> "fyi", limit |-> 1],
      [for_instance |-> "all", unread_only |-> TRUE, message_type |-> "", limit |-> DEFAULT_LIMIT],
      [for_instance |-> "code", unread_only |-> TRUE, message_type |-> "note", limit |-> DEFAULT_LIMIT] }

InitHandoff ==
    /\ memories = <<>>
    /\ edges = {}
    /\ result = NoResult
    /\ cls = NoCall
    /\ readers = [p \in Procs |-> Idle]
    /\ config = AccessorConfig
    /\ handoff_messages = <<>>
    /\ instances \in InstanceLists
    /\ now = 0
    /\ InitServer

SendHandoff ==
    /\ Len(handoff_messages) < MaxMessages
    /\ \E a \in SendArgs :
          send_handoff(a.from_instance, a.to_instance, a.message_type, <<"n">>, None)

GetHandoffs ==
    \E a \in GetArgs :
       get_handoffs(a.for_instance, a.unread_only, a.message_type, a.limit)

MarkHandoffRead ==
    /\ now < MaxTicks
    /\ \E message_id \in 1..(Len(handoff_messages) + 1), read_by \in InstanceNames :
          mark_handoff_read(message_id, read_by)

NextHandoff == SendHandoff \/ GetHandoffs \/ MarkHandoffRead

SpecHandoff == InitHandoff /\ [][NextHandoff]_vars

\* what get_handoffs(for_instance) answers in a state, called with its
\* default arguments
DefaultHandoffs(rows, for_instance) ==
    SeqToSet(handoff_query(rows, for_instance, TRUE, "", DEFAULT_LIMIT))

\* C13: once a broadcast message is stored, get_handoffs with default
\* arguments returns it to every configured instance, whatever the other
\* instances did with it (fewer than limit newer messages exist here).
C13_BroadcastVisibleToAll ==
    \A m \in 1..Len(handoff_messages) :
        (handoff_messages[m].to_instance = "all" /\ Len(handoff_messages) - m < DEFAULT_LIMIT)
        => \A X \in SeqToSet(instances) : m \in DefaultHandoffs(handoff_messages, X)

\* C14: a message that is read stays read: after every further call it
\* still has a read_at, no get_handoffs with unread_only = true would return
\* it to any instance, and none that is made does.
C14_ReadStaysRead ==
    [][\A m \in 1..Len(handoff_messages) :
          handoff_messages[m].read_at # None =>
             /\ handoff_messages'[m].read_at # None
             /\ \A X \in InstanceNames :
                   m \notin SeqToSet(handoff_query(handoff_messages', X, TRUE, "",
                                                   DEFAULT_LIMIT))
             /\ (result'.op = "get_handoffs" /\ result'.args.unread_only)
                   => m \notin SeqToSet(result'.ids)]_vars

\* an instance that marked a message read asks for its unread messages and
\* gets a later message, not the one it read
C14_Witness ==
    /\ result.op = "get_handoffs"
    /\ result.status = "ok"
    /\ result.args.unread_only
    /\ result.count >= 1
    /\ \E m \in 1..Len(handoff_messages) :
          /\ handoff_messages[m].read_by = result.args.for_instance
          /\ addressed_to(handoff_messages[m], result.args.for_instance)
          /\ m \notin SeqToSet(result.ids)
          /\ \E k \in 1..Len(result.ids) : result.ids[k] > m

\* C15: a message is created unread, and once it is read no later
\* mark_handoff_read, by the same or another instance, changes its read_at.
C15_FirstMarkWins ==
    [][/\ \A m \in (Len(handoff_messages) + 1)..Len(handoff_messages') :
             /\ handoff_messages'[m].read_at = None
             /\ handoff_messages'[m].read_by = ""
       /\ \A m \in 1..Len(handoff_messages) :
             handoff_messages[m].read_at # None
             => handoff_messages'[m].read_at = handoff_messages[m].read_at]_vars

\* C16: every stored message has from_instance other than "all" and
\* to_instance a configured instance or "all", for every configured list;
\* a send_handoff with any other from_instance or to_instance stores nothing.
C16_AddressesValid ==
    [][/\ \A m \in 1..Len(handoff_messages') :
             /\ handoff_messages'[m].from_instance # "all"
             /\ handoff_messages'[m].to_instance \in SeqToSet(instances) \cup {"all"}
       /\ (/\ result'.op = "send_handoff"
           /\ \/ result'.args.from_instance = "all"
              \/ result'.args.from_instance \notin SeqToSet(instances)
              \/ result'.args.to_instance \notin SeqToSet(instances) \cup {"all"})
          => handoff_messages' = handoff_messages]_vars

----------------------------------------------------------------------------
(* SpecForget: forget called again and again, with and without a reason     *)

MaxContextLines == 2

\* the source_context arguments of remember: none, or one line of text
SourceContexts == { <<>>, <<TextLine("ctx")>> }

\* the reason arguments of forget ("" stands for None)
Reasons == {"", "stale", "dup"}

InitForget ==
    /\ InitStore
    /\ config = AccessorConfig

RememberForForget ==
    /\ Len(memories) < MaxMemories
    /\ \E source_context \in SourceContexts :
          remember("code", "fact", <<"a">>, None, None, None, 5, "life",
                   "explicit", source_context, "", NoId, "False", None, <<>>)

ForgetWithReason ==
    \E memory_id \in 1..(Len(memories) + 1), reason \in Reasons :
       /\ (Exists(memory_id) /\ reason # "")
             => Len(memories[memory_id].source_context) < MaxContextLines
       /\ forget(memory_id, reason)

NextForget == RememberForForget \/ ForgetWithReason

SpecForget == InitForget /\ [][NextForget]_vars

\* C18: forget(id, reason) applied a second time, for any reason argument,
\* leaves the stored memory as the first application left it: is_archived
\* stays true and no field of the row, source_context included, changes.
C18_ForgetTwiceIsForgetOnce ==
    [][(/\ result.op = "forget" /\ result.status = "ok"
        /\ result'.op = "forget" /\ result'.status = "ok"
        /\ result'.id = result.id
        /\ result'.args.reason = result.args.reason)
       => /\ memories'[result.id].is_archived
          /\ memories'[result.id] = memories[result.id]]_vars

----------------------------------------------------------------------------
(* SpecArchive: the life of a memory under every operation of the memory    *)
(* service, with the model server up or down at each call                   *)

\* what get_embedding returns: nothing when the model server is down
ServerEmbeddings == {None, <<3, 4>>}

IncludeArchived == [DefaultFilter EXCEPT !.include_archived = TRUE]

MaxReads == 1

\* the reads counted so far, over all rows
RECURSIVE TotalAccess(_)
TotalAccess(rows) ==
    IF rows = <<>> THEN 0 ELSE Head(rows).access_count + TotalAccess(Tail(rows))

InitArchive ==
    /\ InitStore
    /\ config = tiered_auto_link_config([enabled |-> TRUE])

RememberArchive ==
    /\ Len(memories) < MaxMemories
    /\ \E embedding \in ServerEmbeddings, supersedes_id \in {NoId, Len(memories)} :
          remember("code", "fact", <<"a">>, None, None, None, 5, "life",
                   "explicit", <<>>, "", supersedes_id, "False", embedding,
                   <<>>)

\* the recall calls: the default one with the query embedded, and one with
\* include_archived = true while the model server is down
RecallCalls ==
    { [f |-> DefaultFilter, query_embedding |-> QueryEmbedding],
      [f |-> IncludeArchived, query_embedding |-> None] }

RecallArchive ==
    \E call \in RecallCalls :
       /\ TotalAccess(memories) < MaxReads
       /\ recall(<<"a">>, call.f, FALSE, call.query_embedding, TRUE)

ForgetArchive ==
    \E memory_id \in 1..Len(memories) : forget(memory_id, "")

UpdateArchive ==
    \E memory_id \in 1..Len(memories), embedding \in ServerEmbeddings :
       update_memory(memory_id, [content |-> <<"a">>], TRUE, embedding)

ReadById ==
    \E memory_id \in 1..Len(memories) :
       /\ TotalAccess(memories) < MaxReads
       /\ get_memory_by_id(memory_id, "verbose")

ReadByIds ==
    /\ TotalAccess(memories) < MaxReads
    /\ get_memories_by_ids(<<2, 1>>, "verbose", FALSE, None)

BackfillEmbeddings ==
    \E embedding \in ServerEmbeddings :
       backfill_embeddings([i \in 1..Len(memories) |-> embedding])

ReflectArchive ==
    /\ Len(memories) < MaxMemories
    /\ reflect("code", "s1", FALSE,
               <<[type |-> "fact", subject |-> None, content |-> <<"a">>]>>,
               [i \in 1..(Len(memories) + 1) |-> None])

NextArchive ==
    \/ RememberArchive
    \/ RecallArchive
    \/ ForgetArchive
    \/ UpdateArchive
    \/ ReadById
    \/ ReadByIds
    \/ BackfillEmbeddings
    \/ ReflectArchive

SpecArchive == InitArchive /\ [][NextArchive]_vars

\* the ids a recall with include_archived = true returns, on either path
RecalledWithArchived(rows, query_embedding) ==
    SeqToSet(Firsts(recall_scored(rows, IncludeArchived, <<>>, query_embedding)))

\* an archived memory is answered by get_memory_by_id and by a recall with
\* include_archived = true, on the keyword and on the semantic path, and by
\* the calls that were made
ArchivedRetrievable ==
    LET archived == {i \in 1..Len(memories) : memories[i].is_archived}
        by_keyword == IF archived = {} THEN {}
                      ELSE RecalledWithArchived(memories, None)
        by_similarity == IF archived = {} THEN {}
                         ELSE RecalledWithArchived(memories, QueryEmbedding)
    IN  \A i \in archived :
           /\ Exists(i)
           /\ to_dict(memories[i], i, "verbose").is_archived
           /\ i \in by_keyword
           /\ i \in by_similarity
           /\ (result.op = "recall" /\ result.args.include_archived)
                 => i \in SeqToSet(result.ids)
           /\ (result.op = "get_memory_by_id" /\ result.id = i)
                 => (result.status = "ok" /\ result.memory.is_archived)

\* C19: archival is one-way: no remember, recall, forget, update_memory,
\* get_memory_by_id, get_memories_by_ids, backfill_embeddings or reflect call
\* sets is_archived back to false, and an archived memory is still answered
\* by get_memory_by_id and by a recall with include_archived = true.
C19_ArchivalOneWay ==
    /\ []ArchivedRetrievable
    /\ [][\A i \in 1..Len(memories) :
             memories[i].is_archived =>
                (i \in 1..Len(memories') /\ memories'[i].is_archived)]_vars

\* a memory archived by supersession, and given its embedding since, has
\* been read by id
C19_Witness ==
    /\ result.op = "get_memory_by_id"
    /\ result.status = "ok"
    /\ result.memory.is_archived
    /\ memories[result.id].embedding # None
    /\ memories[result.id].source_context = <<SupersededMarker(result.id + 1)>>

----------------------------------------------------------------------------
(* SpecBackfill: memories stored while the model server is down, found by   *)
(* keyword and given their embedding later                                  *)

\* the content arguments of remember; each is one word
Contents == { <<"a">>, <<"b", "c">> }

InitBackfill ==
    /\ InitStore
    /\ config = tiered_auto_link_config([enabled |-> TRUE])

RememberUnembedded ==
    /\ Len(memories) < MaxMemories
    /\ \E content \in Contents, embedding \in ServerEmbeddings, supersedes_id \in {NoId, Len(memories)}, auto_link \in {"None", "True"} :
          remember("code", "fact", content, None, None, None, 5, "life",
                   "explicit", <<>>, "", supersedes_id, auto_link, embedding,
                   [t \in 1..Len(memories) |-> Reply(W_refines)])

\* the query arguments of recall: one word, two words, none
KeywordQueries == { <<"a">>, <<"c", " ", "b">>, <<>> }

RecallByKeyword ==
    \E query \in KeywordQueries :
       /\ TotalAccess(memories) < MaxReads
       /\ recall(query, DefaultFilter, FALSE, None, TRUE)

Backfill ==
    \E embedding \in ServerEmbeddings :
       backfill_embeddings([i \in 1..Len(memories) |-> embedding])

NextBackfill == RememberUnembedded \/ RecallByKeyword \/ Backfill

SpecBackfill == InitBackfill /\ [][NextBackfill]_vars

\* the ids a keyword-fallback recall for `query` returns
RecalledByKeyword(rows, query) ==
    SeqToSet(Firsts(recall_scored(rows, DefaultFilter, query, None)))

\* C20: a remember whose embedding fails still succeeds with embedded =
\* false; its row is stored without an embedding, no auto-link edge and no
\* suggestion is made, every keyword-fallback recall whose words all match
\* it returns it,
\* and a backfill_embeddings with the model server up leaves no memory
\* without an embedding.
C20_EmbeddingFailureNonFatal ==
    [][/\ (/\ result'.op = "remember"
           /\ result'.args.source_type \in VALID_SOURCE_TYPES
           /\ ~result'.embedded)
          => /\ result'.status = "ok"
             /\ Len(memories') = Len(memories) + 1
             /\ memories'[result'.id].embedding = None
             /\ result'.suggested_links = <<>>
             /\ \A k \in 1..Len(result'.links_created) :
                   result'.links_created[k].type = "supersedes"
             /\ \A e \in edges' \ edges : ~IsAutoLinked(e)
             /\ \A query \in KeywordQueries :
                   keyword_filter(memories'[result'.id], query)
                      => result'.id \in RecalledByKeyword(memories', query)
       /\ (result'.op = "backfill_embeddings" /\ result'.failed = 0)
          => \A i \in 1..Len(memories') :
                /\ memories'[i].embedding # None
                /\ memories[i].embedding # None
                      => memories'[i].embedding = memories[i].embedding]_vars

\* memories stored while the server was down, one of them found by a
\* keyword recall, have been given their embeddings by a backfill
C20_Witness ==
    /\ result.op = "backfill_embeddings"
    /\ result.generated >= 2
    /\ result.failed = 0
    /\ \E i \in 1..Len(memories) :
          memories[i].access_count >= 1 /\ memories[i].embedding # None

----------------------------------------------------------------------------
(* SpecClassify: the classification of the auto-link edges of one remember  *)

\* what the model server answers to the request for one target; NO_MODEL
\* when no classification model is detected
TargetReplies ==
    { FAILED, Reply(W_refines), Reply(W_supersedes), Reply(<<"x">>) }

ClassifyConfigs ==
    { tiered_auto_link_config([enabled |-> TRUE]),
      tiered_auto_link_config([classify_edges |-> FALSE]) }

InitClassify ==
    /\ InitStore
    /\ config \in ClassifyConfigs

RememberClassified ==
    /\ Len(memories) <= MaxCandidates
    /\ \E embedding \in ServerEmbeddings, supersedes_id \in {NoId, Len(memories)} :
       \E replies \in [1..Len(memories) -> TargetReplies] \cup {[t \in 1..Len(memories) |-> NO_MODEL]} :
          remember("code", "fact", <<"a">>, None, None, None, 5, "life",
                   "explicit", <<>>, "", supersedes_id, "None", embedding,
                   replies)

NextClassify == RememberClassified \/ ForgetCandidate

SpecClassify == InitClassify /\ [][NextClassify]_vars

----------------------------------------------------------------------------
(* SpecSynthesis: recall with the synthesize argument under both values of  *)
(* the configuration flag synthesis.enabled                                  *)

InitSynthesis ==
    /\ memories = <<>>
    /\ edges = {}
    /\ result = NoResult
    /\ cls = NoCall
    /\ readers = [p \in Procs |-> Idle]
    /\ config = AccessorConfig
    /\ handoff_messages = <<>>
    /\ instances = DEFAULT_INSTANCES
    /\ now = 0
    /\ synthesis_enabled \in BOOLEAN
    /\ remembering = NotRemembering
    /\ embedding_call = NoEmbeddingCall
    /\ model_cache = EmptyModelCache
    /\ probes = 0
    /\ model_call = NoModelCall

RecallSynthesis ==
    \E f \in {DefaultFilter, IncludeArchived}, query \in Queries, synthesize \in BOOLEAN, llm_available \in BOOLEAN :
       /\ recall(query.text, f, synthesize, query.embedding, llm_available)
       /\ \A i \in 1..Len(memories) : memories'[i].access_count <= MaxRecalls

NextSynthesis == RememberRow \/ ForgetRow \/ RecallSynthesis

SpecSynthesis == InitSynthesis /\ [][NextSynthesis]_vars

\* C22: with synthesis.enabled = false in the configuration, recall returns
\* the raw shape {memories, count, search_method} and issues no generation
\* request, whatever the synthesize argument is.
C22_SynthesisFlagForcesRaw ==
    (result.op = "recall" /\ ~synthesis_enabled)
    => /\ result.shape = "memories"
       /\ result.generation_requests = 0
       /\ ~result.no_llm

----------------------------------------------------------------------------
(* SpecDefaults: memory_remember under the built-in default configuration   *)

InitDefaults ==
    /\ InitStore
    /\ config = AccessorConfig

\* memory_remember passes its arguments to remember and returns what it
\* returns; neither catches an exception
MemoryRemember ==
    /\ Len(memories) < MaxMemories
    /\ \E source_type \in {"explicit", "hearsay"}, importance \in {5, 11}, embedding \in ServerEmbeddings, supersedes_id \in {NoId, Len(memories)}, auto_link \in {"None", "True", "False"} :
          remember("code", "fact", <<"a">>, None, None, None, importance,
                   "life", source_type, <<>>, "", supersedes_id, auto_link,
                   embedding, [t \in 1..Len(memories) |-> Reply(W_refines)])

NextDefaults == MemoryRemember \/ ForgetCandidate

SpecDefaults == InitDefaults /\ [][NextDefaults]_vars

\* C23: memory_remember returns a structured result, {id, subject, embedded,
\* ...} or {error}, and never raises, under the default configuration with
\* auto-link enabled and an embedding produced as under any other.
C23_RememberNeverRaises ==
    result.op = "remember" => result.status \in {"ok", "error"}

----------------------------------------------------------------------------
(* SpecInFlight: recall while a remember call is between its two commits    *)

\* what get_embedding returns for the rows and for the query
InFlightEmbeddings == {None, <<2, 2, 1>>, <<-1, -1, -1>>}

InitInFlight ==
    /\ InitStore
    /\ config = AccessorConfig

RememberCommitRow ==
    /\ Len(memories) < MaxMemories
    /\ remember_commit_row("code", "fact", <<"a">>, 5, "life", "explicit")

RememberCommitEmbedding ==
    \E embedding \in InFlightEmbeddings : remember_commit_embedding(embedding)

RecallInFlight ==
    \E query_embedding \in {None, <<1, 1, 1>>}, limit \in {1, 20} :
       /\ TotalAccess(memories) < MaxReads + 1
       /\ recall(<<"a">>, [DefaultFilter EXCEPT !.limit = limit], FALSE,
                 query_embedding, TRUE)

NextInFlight == RememberCommitRow \/ RememberCommitEmbedding \/ RecallInFlight

SpecInFlight == InitInFlight /\ [][NextInFlight]_vars

\* C24: a recall that runs between the two commits of a remember completes
\* without error and, when it returns the new row on the semantic path,
\* gives it the score -1.0 and places it after every returned row that has
\* an embedding.
C24_InFlightRowSortsLast ==
    (/\ result.op = "recall"
     /\ remembering # NotRemembering
     /\ result.search_method = "semantic")
    => /\ result.status = "ok"
       /\ \A k \in 1..Len(result.ids) :
             result.ids[k] = remembering.id
             => /\ result.scores[k] = -100
                /\ \A j \in 1..Len(result.ids) :
                      memories[result.ids[j]].embedding # None => j < k

----------------------------------------------------------------------------
(* SpecEmbedding: the retry loop of get_embedding against a model server    *)
(* that may fail in every way at every request                              *)

InitEmbedding ==
    /\ InitStore
    /\ config = AccessorConfig

GetEmbeddingStart ==
    \E text_blank \in BOOLEAN, model_found \in BOOLEAN :
       get_embedding_start(text_blank, model_found)

GetEmbeddingAttempt ==
    \E response \in Responses : get_embedding_attempt(response, <<3, 4>>)

NextEmbedding == GetEmbeddingStart \/ GetEmbeddingAttempt

\* every request ends, by its answer or by its timeout of 30 or 60 seconds,
\* and every delay ends: a call under way takes its next pass
SpecEmbedding ==
    InitEmbedding /\ [][NextEmbedding]_vars /\ WF_vars(GetEmbeddingAttempt)

Retryable(response) == response \notin {"vector", "context_length_error"}

EmbeddingCallBounded ==
    LET c == embedding_call
        n == Len(c.responses)
    IN
    /\ n <= EMBEDDING_MAX_RETRIES
    /\ \A k \in 1..(n - 1) : Retryable(c.responses[k])
    /\ c.status = "running"
          => /\ n < EMBEDDING_MAX_RETRIES
             /\ c.sleeps = n
             /\ n >= 1 => Retryable(c.responses[n])
    /\ c.status = "returned"
          => /\ (c.out # None) <=> (n >= 1 /\ c.responses[n] = "vector")
             /\ (n >= 1 /\ Retryable(c.responses[n])) => n = EMBEDDING_MAX_RETRIES
             /\ c.sleeps = IF n = 0 THEN 0 ELSE n - 1

\* C25: get_embedding ends after at most 3 requests.  It returns the vector
\* at the first attempt that yields one, returns null without another
\* request after a context-length error, retries after every other failure
\* and returns null once 3 attempts have failed; a delay is taken between
\* attempts only, never after the last.
C25_EmbeddingRetriesBounded ==
    /\ []EmbeddingCallBounded
    /\ (embedding_call.status = "running") ~> (embedding_call.status = "returned")

\* a call failed twice, waited twice and got its vector at the third request
C25_Witness ==
    /\ embedding_call.status = "returned"
    /\ embedding_call.responses = <<"timeout", "malformed_json", "vector">>
    /\ embedding_call.out = <<3, 4>>
    /\ embedding_call.sleeps = 2

----------------------------------------------------------------------------
(* SpecExclusions: the candidates the auto-link pass of remember leaves out *)

\* the project argument of remember; it is a string, the empty one included
Projects == {"life", "work", ""}

ExclusionConfigs ==
    { tiered_auto_link_config([enabled |-> TRUE]),
      tiered_auto_link_config([same_project_only |-> FALSE]) }

InitExclusions ==
    /\ InitStore
    /\ config \in ExclusionConfigs

RememberInProject ==
    /\ Len(memories) < MaxMemories
    /\ \E project \in Projects, embedding \in Embeddings, supersedes_id \in 0..Len(memories) :
          remember("code", "fact", <<"a">>, None, None, None, 5, project,
                   "explicit", <<>>, "", supersedes_id, "None", embedding,
                   [t \in 1..Len(memories) |-> Reply(W_refines)])

NextExclusions == RememberInProject \/ ForgetCandidate

SpecExclusions == InitExclusions /\ [][NextExclusions]_vars

\* the targets of the auto-link edges and of the suggestions of the call
\* that made the step
AutoLinkTargets ==
    {e.target_id : e \in {x \in edges' \ edges : IsAutoLinked(x)}}
    \cup {result'.suggested_links[k].target : k \in 1..Len(result'.suggested_links)}

----------------------------------------------------------------------------
(* SpecReflect: reflect over a store that holds memories without embedding  *)

SessionIds == {"", "s1"}

InitReflect ==
    /\ InitStore
    /\ config = AccessorConfig

RememberInSession ==
    /\ Len(memories) < MaxMemories
    /\ \E source_session_id \in SessionIds, embedding \in ServerEmbeddings :
          remember("code", "fact", <<"a">>, None, None, None, 5, "life",
                   "explicit", <<>>, source_session_id, NoId, "False",
                   embedding, <<>>)

Reflect ==
    \E session_id \in SessionIds, dry_run \in BOOLEAN, extracted \in ExtractedLines, embedding \in ServerEmbeddings :
       /\ Len(memories) + Len(extracted) <= MaxMemories + 1
       /\ reflect("code", session_id, dry_run, extracted,
                  [i \in 1..(Len(memories) + Len(extracted)) |-> embedding])

NextReflect == RememberInSession \/ Reflect

SpecReflect == InitReflect /\ [][NextReflect]_vars

\* C27: a reflect that is not a dry run gives embeddings to the memories it
\* created only: every memory that existed before the call keeps its
\* embedding field, and the embedded count it reports is at most the
\* extracted count.
C27_ReflectEmbedsOnlyItsOwn ==
    [][(result'.op = "reflect" /\ result'.status = "ok"
        /\ Len(memories') > Len(memories))
       => /\ \A i \in 1..Len(memories) :
                memories'[i].embedding = memories[i].embedding
          /\ result'.embedded <= result'.extracted]_vars

----------------------------------------------------------------------------
(* SpecModelCache: model detection for the three roles and the clearing of  *)
(* the caches                                                               *)

MaxProbes == 4

\* what the preference lists select from the models the server lists
FoundModels ==
    [embedding |-> {"", "nomic-embed-text"},
     llm |-> {"", "qwen3:14b"},
     classification |-> {"", "qwen3:1.7b"}]

InitModelCache ==
    /\ InitStore
    /\ config = AccessorConfig

DetectModel ==
    \E role \in {"embedding", "llm"} : \E found \in FoundModels[role] :
       /\ probes < MaxProbes
       /\ detect_model(role, found)

DetectClassificationModel ==
    \E configured \in {"", "gemma3:1b"}, server_up \in BOOLEAN, found \in FoundModels.classification, llm_found \in FoundModels.llm :
       /\ probes + 1 < MaxProbes
       /\ detect_classification_model(configured, server_up, found, llm_found)

ClearModelCache ==
    \E module \in {"embeddings", "llm"} : clear_model_cache(module)

NextModelCache == DetectModel \/ DetectClassificationModel \/ ClearModelCache

SpecModelCache == InitModelCache /\ [][NextModelCache]_vars

ClearEmptiesAll ==
    model_call.op = "clear_model_cache" => model_cache = EmptyModelCache

\* C28: after clear_model_cache() the cached choice of all three roles is
\* empty; between clears a role's cached choice, once set, is returned
\* without a new probe.
C28_ClearEmptiesAllCaches ==
    /\ []ClearEmptiesAll
    /\ [][(model_call'.op = "detect" /\ model_cache[model_call'.role] # "")
          => /\ probes' = probes
             /\ model_cache' = model_cache
             /\ model_call'.out = model_cache[model_call'.role]]_vars

----------------------------------------------------------------------------
(* Lost updates of the access counter, over SpecReads                       *)

\* session p completes its read in this step
Completes(p) == readers[p].pc = "loaded" /\ readers'[p].pc = "idle"

\* C29: no access-count increment is lost: every read that completes, in
\* whatever interleaving with the reads of other sessions, leaves the
\* access_count of each memory it returned one above the value the memory had
\* just before, so that k completed reads of a memory add k.
C29_NoIncrementLost ==
    [][ \A p \in Procs :
          Completes(p) =>
            \A i \in readers[p].ids :
               memories'[i].access_count = memories[i].access_count + 1 ]_vars

----------------------------------------------------------------------------
(* The error paths of the handoff bus, over SpecHandoff                     *)

\* the arguments send_handoff refuses
SendRefused(args) ==
    \/ args.from_instance \notin SeqToSet(instances)
    \/ args.to_instance \notin SeqToSet(instances) \cup {"all"}
    \/ args.message_type \notin VALID_MESSAGE_TYPES

\* the arguments mark_handoff_read refuses, against the messages stored
MarkRefused(args) ==
    \/ args.read_by \notin SeqToSet(instances)
    \/ args.message_id \notin 1..Len(handoff_messages)

\* C30: a handoff call that returns {error} changes nothing: send_handoff
\* with an unconfigured from_instance, an invalid to_instance or an invalid
\* message_type answers {error} and stores no message, and mark_handoff_read
\* with an unconfigured read_by or an unknown message id answers {error} and
\* leaves read_at and read_by of every message as they were.
C30_HandoffErrorsChangeNothing ==
    [][/\ (result'.op = "send_handoff" /\ SendRefused(result'.args))
          => result'.status = "error"
       /\ (result'.op = "mark_handoff_read" /\ MarkRefused(result'.args))
          => result'.status = "error"
       /\ (result'.op \in {"send_handoff", "mark_handoff_read"} /\ result'.status = "error")
          => handoff_messages' = handoff_messages]_vars

\* an unconfigured reader was refused a message that exists and is unread,
\* while another message is read
C30_Witness ==
    /\ result.op = "mark_handoff_read"
    /\ result.status = "error"
    /\ result.args.read_by \notin SeqToSet(instances)
    /\ result.args.message_id \in 1..Len(handoff_messages)
    /\ handoff_messages[result.args.message_id].read_at = None
    /\ \E m \in 1..Len(handoff_messages) : handoff_messages[m].read_at # None

====
